---- MODULE Spec2Model ----
(***************************************************************************)
(* A model of the contract/transaction sampling and classification engine  *)
(* of megaeth-analytics-mcp (src/src/services/contract-analyzer.ts):       *)
(* ContractAnalyzer.discoverActiveContracts with its two fold rules and    *)
(* the contract-type classifier, and the transaction categorisation of     *)
(* MegaETHAnalytics (analyzeBlockTransactions, categorizeTransaction as    *)
(* used by detectWhaleActivity).                                           *)
(*                                                                         *)
(* Strings of the program that are inspected character by character        *)
(* (addresses, call-data, hashes) are sequences of one-character strings,  *)
(* so that toLowerCase, substring, includes and length are computed.       *)
(* The chain client is the environment: every fetch draws its outcome      *)
(* (an error, nothing, or a value) from a small set.                       *)
(***************************************************************************)
EXTENDS Integers, Sequences, FiniteSets, TLC

(***************************************************************************)
(* Bounds of the model.                                                    *)
(***************************************************************************)
\* largest blocksToAnalyze a caller passes
MaxBlocks == 2
\* largest number of transaction hashes in one block
MaxTxs == 2
\* largest number of transaction hashes in all the blocks of one scan
MaxChainTxs == 3

(***************************************************************************)
(* JavaScript strings and values.                                          *)
(***************************************************************************)
\* null / undefined / the empty string: the falsy values of a string field
Null == <<>>

Truthy(s) == s # Null

Min(a, b) == IF a < b THEN a ELSE b

Max(a, b) == IF a > b THEN a ELSE b

LowerChar(c) ==
  CASE c = "A" -> "a"
    [] c = "B" -> "b"
    [] c = "C" -> "c"
    [] c = "D" -> "d"
    [] c = "E" -> "e"
    [] c = "F" -> "f"
    [] c = "X" -> "x"
    [] OTHER -> c

\* String.prototype.toLowerCase
ToLowerCase(s) == [k \in 1..Len(s) |-> LowerChar(s[k])]

\* String.prototype.substring(a, b), 0 <= a <= b
Substring(s, a, b) == SubSeq(s, a + 1, Min(b, Len(s)))

\* String.prototype.includes
Includes(s, p) ==
  \E k \in 0..(Len(s) - Len(p)) : SubSeq(s, k + 1, k + Len(p)) = p

Digits == <<"0", "1", "2", "3", "4", "5", "6", "7", "8", "9">>

\* the hash listed at index k of the block fetched in iteration n of a scan
TxHash(n, k) == <<"0", "x", Digits[n + 1], Digits[k + 1]>>

(***************************************************************************)
(* The values the chain client returns.                                    *)
(***************************************************************************)
\* addresses, as the chain client spells them: one contract in its checksum
\* spelling and in lowercase, another contract, and two senders
AddrA == <<"0", "x", "A", "b">>
AddrALower == <<"0", "x", "a", "b">>
AddrB == <<"0", "x", "C", "d">>
SenderE == <<"0", "x", "E", "f">>
SenderELower == <<"0", "x", "e", "f">>
SenderF == <<"0", "x", "f", "f">>

\* tx.to, receipt.contractAddress and tx.from of the sampled transactions
Recipients == {AddrALower, AddrB}
Created == {AddrA}
Senders == {SenderE, SenderELower, SenderF}

\* call-data: none, 3 bytes, and a call of transfer(address,uint256)
DataEmpty == <<"0", "x">>
DataShort == <<"0", "x", "a", "9", "0", "5", "9", "c">>
DataTransfer == <<"0", "x", "a", "9", "0", "5", "9", "c", "b", "b">>

CallData == {DataShort, DataTransfer}

GasValues == {21000}

\* the chain height getBlockNumber answers
ChainHeights == {1}

\* the timestamp, in seconds, of the block at height h: a later block has a
\* later timestamp
BlockTimestamp(h) == 1000 + 10 * h

(***************************************************************************)
(* Map<K, V>: the entries in insertion order.  set() on a key already      *)
(* present replaces the value and keeps the entry's position (ECMAScript   *)
(* Map).                                                                   *)
(***************************************************************************)
EmptyMap == <<>>

MapHas(m, k) == \E p \in 1..Len(m) : m[p].key = k

MapGet(m, k) == m[CHOOSE p \in 1..Len(m) : m[p].key = k].val

\* m.get(k) || d
MapGetOr(m, k, d) == IF MapHas(m, k) THEN MapGet(m, k) ELSE d

MapSet(m, k, v) ==
  IF MapHas(m, k)
  THEN [p \in 1..Len(m) |-> IF m[p].key = k THEN [key |-> k, val |-> v] ELSE m[p]]
  ELSE Append(m, [key |-> k, val |-> v])

\* Array.from(m.values())
MapValues(m) == [p \in 1..Len(m) |-> m[p].val]

MapKeys(m) == {m[p].key : p \in 1..Len(m)}

\* Array.prototype.sort((a, b) => key(b) - key(a)): descending by the key,
\* and stable (ECMAScript 2019, Node.js >= 11); key[k] is the key of s[k]
SortDescBy(s, key) ==
  LET n == Len(s)
      pos(k) == Cardinality({m \in 1..n : key[m] > key[k]})
                + Cardinality({m \in 1..(k - 1) : key[m] = key[k]}) + 1
  IN  [p \in 1..n |-> s[CHOOSE k \in 1..n : pos(k) = p]]

(***************************************************************************)
(* ContractAnalyzer.identifyContractType                                   *)
(***************************************************************************)
\* the patterns searched in the lowercased call-data, in the order of the code
SignatureTable == <<
  [pattern |-> <<"a", "9", "0", "5", "9", "c", "b", "b">>, label |-> "ERC20 Token"],
  [pattern |-> <<"2", "3", "b", "8", "7", "2", "d", "d">>, label |-> "ERC20 Token"],
  [pattern |-> <<"0", "9", "5", "e", "a", "7", "b", "3">>, label |-> "ERC20 Token"],
  [pattern |-> <<"4", "2", "8", "4", "2", "e", "0", "e">>, label |-> "ERC721 NFT"],
  [pattern |-> <<"b", "8", "8", "d", "4", "f", "d", "e">>, label |-> "ERC721 NFT"],
  [pattern |-> <<"1", "f", "0", "0", "c", "a", "7", "4">>, label |-> "DEX"],
  [pattern |-> <<"3", "8", "e", "d", "1", "7", "3", "9">>, label |-> "DEX"],
  [pattern |-> <<"7", "f", "f", "3", "6", "a", "b", "5">>, label |-> "DEX"],
  [pattern |-> <<"b", "6", "b", "5", "5", "f", "2", "5">>, label |-> "Lending"],
  [pattern |-> <<"6", "9", "3", "2", "8", "d", "e", "c">>, label |-> "Lending"],
  [pattern |-> <<"c", "5", "e", "b", "e", "a", "e", "c">>, label |-> "Lending"],
  [pattern |-> <<"e", "2", "b", "b", "b", "1", "5", "8">>, label |-> "Staking"],
  [pattern |-> <<"2", "e", "1", "a", "7", "d", "4", "d">>, label |-> "Staking"] >>

IdentifyContractType(tx, receipt) ==
  IF Truthy(tx.data)
  THEN LET data == ToLowerCase(tx.data)
           hits == {p \in 1..Len(SignatureTable) : Includes(data, SignatureTable[p].pattern)}
           gasUsed == receipt.gasUsed
       IN  IF hits # {}
           THEN SignatureTable[CHOOSE p \in hits : \A q \in hits : p <= q].label
           ELSE IF gasUsed > 1000000 THEN "Complex DeFi"
           ELSE IF gasUsed > 500000 THEN "Multi-Function"
           ELSE IF gasUsed > 100000 THEN "Standard Contract"
           ELSE "Unknown"
  ELSE "Unknown"

(***************************************************************************)
(* The two fold rules of discoverActiveContracts.  A Date is its time in   *)
(* milliseconds.                                                           *)
(***************************************************************************)
\* the string 'unknown'
Unknown == <<"u", "n", "k", "n", "o", "w", "n">>

DateOf(blockTimestamp) == blockTimestamp * 1000

\* a variant that takes a signature from 8 characters of call-data on
AnalyzeContractInteractionEightChars(tx, receipt, contracts, blockTimestamp) ==
  IF ~Truthy(tx.to)
  THEN contracts
  ELSE LET contractAddress == ToLowerCase(tx.to)
           created == [address |-> contractAddress,
                       creator |-> Unknown,
                       creationHash |-> Unknown,
                       creationBlock |-> 0,
                       contractType |-> IdentifyContractType(tx, receipt),
                       firstSeen |-> DateOf(blockTimestamp),
                       lastActivity |-> DateOf(blockTimestamp),
                       totalInteractions |-> 0,
                       uniqueCallers |-> {},
                       functionSignatures |-> EmptyMap,
                       gasUsed |-> 0,
                       isVerified |-> FALSE]
           contractInfo == MapGetOr(contracts, contractAddress, created)
           updated == [contractInfo EXCEPT
                         !.totalInteractions = @ + 1,
                         !.uniqueCallers = @ \cup {ToLowerCase(tx.from)},
                         !.gasUsed = @ + receipt.gasUsed,
                         !.lastActivity = DateOf(blockTimestamp)]
           signature == Substring(tx.data, 0, 10)
           withSignature ==
             IF Truthy(tx.data) /\ Len(tx.data) >= 8
             THEN [updated EXCEPT !.functionSignatures =
                     MapSet(@, signature, MapGetOr(@, signature, 0) + 1)]
             ELSE updated
       IN  MapSet(contracts, contractAddress, withSignature)

\* a variant that keys the record by the recipient as spelled
AnalyzeContractInteractionRawKey(tx, receipt, contracts, blockTimestamp) ==
  IF ~Truthy(tx.to)
  THEN contracts
  ELSE LET contractAddress == tx.to
           created == [address |-> contractAddress,
                       creator |-> Unknown,
                       creationHash |-> Unknown,
                       creationBlock |-> 0,
                       contractType |-> IdentifyContractType(tx, receipt),
                       firstSeen |-> DateOf(blockTimestamp),
                       lastActivity |-> DateOf(blockTimestamp),
                       totalInteractions |-> 0,
                       uniqueCallers |-> {},
                       functionSignatures |-> EmptyMap,
                       gasUsed |-> 0,
                       isVerified |-> FALSE]
           contractInfo == MapGetOr(contracts, contractAddress, created)
           updated == [contractInfo EXCEPT
                         !.totalInteractions = @ + 1,
                         !.uniqueCallers = @ \cup {ToLowerCase(tx.from)},
                         !.gasUsed = @ + receipt.gasUsed,
                         !.lastActivity = DateOf(blockTimestamp)]
           signature == Substring(tx.data, 0, 10)
           withSignature ==
             IF Truthy(tx.data) /\ Len(tx.data) >= 10
             THEN [updated EXCEPT !.functionSignatures =
                     MapSet(@, signature, MapGetOr(@, signature, 0) + 1)]
             ELSE updated
       IN  MapSet(contracts, contractAddress, withSignature)

AnalyzeContractInteraction(tx, receipt, contracts, blockTimestamp) ==
  IF ~Truthy(tx.to)
  THEN contracts
  ELSE LET contractAddress == ToLowerCase(tx.to)
           created == [address |-> contractAddress,
                       creator |-> Unknown,
                       creationHash |-> Unknown,
                       creationBlock |-> 0,
                       contractType |-> IdentifyContractType(tx, receipt),
                       firstSeen |-> DateOf(blockTimestamp),
                       lastActivity |-> DateOf(blockTimestamp),
                       totalInteractions |-> 0,
                       uniqueCallers |-> {},
                       functionSignatures |-> EmptyMap,
                       gasUsed |-> 0,
                       isVerified |-> FALSE]
           contractInfo == MapGetOr(contracts, contractAddress, created)
           updated == [contractInfo EXCEPT
                         !.totalInteractions = @ + 1,
                         !.uniqueCallers = @ \cup {ToLowerCase(tx.from)},
                         !.gasUsed = @ + receipt.gasUsed,
                         !.lastActivity = DateOf(blockTimestamp)]
           signature == Substring(tx.data, 0, 10)
           withSignature ==
             IF Truthy(tx.data) /\ Len(tx.data) >= 10
             THEN [updated EXCEPT !.functionSignatures =
                     MapSet(@, signature, MapGetOr(@, signature, 0) + 1)]
             ELSE updated
       IN  MapSet(contracts, contractAddress, withSignature)

\* a variant that does not count the deployment as an interaction
AnalyzeContractDeploymentUncounted(tx, receipt, contracts, blockTimestamp) ==
  IF ~Truthy(receipt.contractAddress)
  THEN contracts
  ELSE LET contractAddress == ToLowerCase(receipt.contractAddress)
           contractInfo == [address |-> contractAddress,
                            creator |-> ToLowerCase(tx.from),
                            creationHash |-> tx.hash,
                            creationBlock |-> receipt.blockNumber,
                            contractType |-> IdentifyContractType(tx, receipt),
                            firstSeen |-> DateOf(blockTimestamp),
                            lastActivity |-> DateOf(blockTimestamp),
                            totalInteractions |-> 0,
                            uniqueCallers |-> {ToLowerCase(tx.from)},
                            functionSignatures |-> EmptyMap,
                            gasUsed |-> receipt.gasUsed,
                            isVerified |-> FALSE]
       IN  MapSet(contracts, contractAddress, contractInfo)

\* a variant that keeps a record the map already holds for the address and
\* counts the deployment as one more interaction
AnalyzeContractDeploymentMerged(tx, receipt, contracts, blockTimestamp) ==
  IF ~Truthy(receipt.contractAddress)
  THEN contracts
  ELSE LET contractAddress == ToLowerCase(receipt.contractAddress)
           contractInfo == [address |-> contractAddress,
                            creator |-> ToLowerCase(tx.from),
                            creationHash |-> tx.hash,
                            creationBlock |-> receipt.blockNumber,
                            contractType |-> IdentifyContractType(tx, receipt),
                            firstSeen |-> DateOf(blockTimestamp),
                            lastActivity |-> DateOf(blockTimestamp),
                            totalInteractions |-> 1,
                            uniqueCallers |-> {ToLowerCase(tx.from)},
                            functionSignatures |-> EmptyMap,
                            gasUsed |-> receipt.gasUsed,
                            isVerified |-> FALSE]
           merged == [MapGet(contracts, contractAddress) EXCEPT
                        !.creator = ToLowerCase(tx.from),
                        !.creationHash = tx.hash,
                        !.creationBlock = receipt.blockNumber,
                        !.totalInteractions = @ + 1,
                        !.uniqueCallers = @ \cup {ToLowerCase(tx.from)},
                        !.gasUsed = @ + receipt.gasUsed,
                        !.lastActivity = DateOf(blockTimestamp)]
       IN  IF MapHas(contracts, contractAddress)
           THEN MapSet(contracts, contractAddress, merged)
           ELSE MapSet(contracts, contractAddress, contractInfo)

AnalyzeContractDeployment(tx, receipt, contracts, blockTimestamp) ==
  IF ~Truthy(receipt.contractAddress)
  THEN contracts
  ELSE LET contractAddress == ToLowerCase(receipt.contractAddress)
           contractInfo == [address |-> contractAddress,
                            creator |-> ToLowerCase(tx.from),
                            creationHash |-> tx.hash,
                            creationBlock |-> receipt.blockNumber,
                            contractType |-> IdentifyContractType(tx, receipt),
                            firstSeen |-> DateOf(blockTimestamp),
                            lastActivity |-> DateOf(blockTimestamp),
                            totalInteractions |-> 1,
                            uniqueCallers |-> {ToLowerCase(tx.from)},
                            functionSignatures |-> EmptyMap,
                            gasUsed |-> receipt.gasUsed,
                            isVerified |-> FALSE]
       IN  MapSet(contracts, contractAddress, contractInfo)

\* lines 77-83: the rule applied to one fetched (transaction, receipt) pair
FoldPair(tx, receipt, contracts, blockTimestamp) ==
  IF Truthy(tx.to)
  THEN AnalyzeContractInteraction(tx, receipt, contracts, blockTimestamp)
  ELSE IF Truthy(receipt.contractAddress)
  THEN AnalyzeContractDeployment(tx, receipt, contracts, blockTimestamp)
  ELSE contracts

\* lines 62-63; for an empty block 0 / 0 is NaN, so is the stride, and the
\* loop test j < 0 fails before the stride is used: 1 stands for it
SampleCeiling == 50

SampleSize(n) == Min(SampleCeiling, n)

\* a variant that rounds the stride up
StepRoundedUp(n) ==
  IF n = 0 THEN 1 ELSE Max(1, (n + SampleSize(n) - 1) \div SampleSize(n))

Step(n) == IF n = 0 THEN 1 ELSE Max(1, n \div SampleSize(n))

\* a variant that sorts ascending and reverses the list: equal records end
\* in the reverse of their insertion order
SortedContractsReversed(contracts) ==
  LET values == MapValues(contracts)
      n == Len(values)
      ascending == SortDescBy(values, [k \in 1..n |-> 0 - values[k].totalInteractions])
  IN  [p \in 1..n |-> ascending[n + 1 - p]]

\* lines 94-97
SortedContracts(contracts) ==
  LET values == MapValues(contracts)
  IN  SortDescBy(values, [k \in 1..Len(values) |-> values[k].totalInteractions])

(***************************************************************************)
(* State of one discoverActiveContracts call.                              *)
(***************************************************************************)
VARIABLES
  pc,               \* where the call stands
  blocksToAnalyze,  \* its argument
  currentBlock,     \* the chain height fetched at line 49
  i,                \* the block loop's index
  block,            \* the block fetched in this iteration
  j,                \* the transaction loop's index
  contracts,        \* the Map<string, ContractInfo> of line 50
  result,           \* the list returned
  raised,           \* an error left the call
  event,            \* history: what the last step did
  hBlocksOk,        \* history: blocks fetched with a transaction list
  hChainTxs,        \* history: transaction hashes listed by the blocks fetched
  hFetched,         \* history: indexes of this block whose pair was requested
  hTouched,         \* history: lowercase addresses folded, in order of discovery
  hRecipient,       \* history: address -> folded transactions sent to it
  hTimes            \* history: address -> block timestamps of its folded transactions

scanVars == <<pc, blocksToAnalyze, currentBlock, i, block, j, contracts, result,
              raised, event, hBlocksOk, hChainTxs, hFetched, hTouched,
              hRecipient, hTimes>>

(***************************************************************************)
(* State of one MegaETHAnalytics call that assigns transaction categories: *)
(* analyzeBlockTransactions or detectWhaleActivity.                        *)
(***************************************************************************)
VARIABLES
  cpc,          \* where the call stands
  txHashes,     \* analyzeBlockTransactions: its argument
  aIdx,         \* analyzeBlockTransactions: hashes of the slice visited
  types,        \* analyzeBlockTransactions: the counters of line 471
  breakdown,    \* analyzeBlockTransactions: the list returned
  threshold,    \* detectWhaleActivity: its argument, in 0.0001 ETH
  wCurrent,     \* detectWhaleActivity: the chain height fetched at line 576
  wI,           \* detectWhaleActivity: the block loop's index
  wBlock,       \* detectWhaleActivity: the block fetched in this iteration
  wJ,           \* detectWhaleActivity: hashes of the slice visited
  whales,       \* detectWhaleActivity: the list of line 577
  wResult,      \* detectWhaleActivity: the list returned
  hCategories,  \* history: category -> transactions fetched by analyzeBlockTransactions
  hWhaleTxs     \* history: transaction hashes listed by the blocks fetched

categoryVars == <<cpc, txHashes, aIdx, types, breakdown, threshold, wCurrent, wI,
                  wBlock, wJ, whales, wResult, hCategories, hWhaleTxs>>

(***************************************************************************)
(* State of one identifyContractType call on each of two transactions that *)
(* have the same receipt gas.                                              *)
(***************************************************************************)
VARIABLES
  idpc,         \* where the calls stand
  idData,       \* tx.data of the first transaction
  idOther,      \* tx.data of the second transaction
  idGas,        \* receipt.gasUsed of both
  idLabel,      \* the label returned for the first
  idOtherLabel  \* the label returned for the second

classifyVars == <<idpc, idData, idOther, idGas, idLabel, idOtherLabel>>

(***************************************************************************)
(* State of one MegaETHAnalytics.getContractFunctions call, which runs     *)
(* ContractAnalyzer.getPopularFunctions.                                   *)
(***************************************************************************)
VARIABLES
  fpc,            \* where the call stands
  limit,          \* its argument
  fCurrent,       \* the chain height fetched at line 248
  fI,             \* the block loop's index
  fBlock,         \* the block fetched in this iteration
  fJ,             \* hashes of the slice visited
  functionStats,  \* the Map<string, {count, gasUsed}> of line 249
  popular,        \* the list getPopularFunctions returns
  functions,      \* what getContractFunctions returns
  hFunctionTxs,   \* history: transaction hashes listed by the blocks fetched
  hCalls,         \* history: signature -> transactions with recipient that carry it
  hCallGas        \* history: signature -> gas used by those transactions

functionVars == <<fpc, limit, fCurrent, fI, fBlock, fJ, functionStats, popular,
                  functions, hFunctionTxs, hCalls, hCallGas>>

(***************************************************************************)
(* State of one MegaETHAnalytics.getContractTypeStats call, from the       *)
(* return of the discoverActiveContracts call that                         *)
(* ContractAnalyzer.getContractsByType makes.                              *)
(***************************************************************************)
VARIABLES
  tpc,         \* where the call stands
  discovered,  \* the list discoverActiveContracts(5) returned
  typeStats,   \* the object of line 325: type -> count, in order of insertion
  typeResult   \* what getContractTypeStats returns

typeVars == <<tpc, discovered, typeStats, typeResult>>

(***************************************************************************)
(* State of one ContractAnalyzer.getNewDeployments call.                   *)
(***************************************************************************)
VARIABLES
  dpc,           \* where the call stands
  hoursBack,     \* its argument
  dCurrent,      \* the chain height fetched at line 338
  dI,            \* the block loop's index
  dBlock,        \* the block fetched in this iteration
  dJ,            \* hashes of the slice visited
  deployments,   \* the list of line 339
  dResult,       \* the list returned
  hDeployTxs,    \* history: transaction hashes listed by the blocks fetched
  hReceipts      \* history: the receipts fetched, each with its hash and sender

deployVars == <<dpc, hoursBack, dCurrent, dI, dBlock, dJ, deployments, dResult,
                hDeployTxs, hReceipts>>

(***************************************************************************)
(* State of the scans that run at once on the event loop (the Promise.all  *)
(* of analyzeContractEcosystem, or two requests being served).             *)
(***************************************************************************)
VARIABLES
  tasks,         \* per scan: its kind, where it is suspended, and its locals
  accumulators,  \* the Map or list each scan collects into
  hLog,          \* history: the chain client's answers to each scan, in order
  hTaskTxs,      \* history: transaction hashes listed to each scan
  hOverlapped    \* history: the scan collected a pair while another was suspended

concurrentVars == <<tasks, accumulators, hLog, hTaskTxs, hOverlapped>>

(***************************************************************************)
(* State of one MegaETHAnalytics.getActiveContracts call, made by a        *)
(* request or by analyzeContractEcosystem.                                 *)
(***************************************************************************)
VARIABLES
  apc,           \* where getActiveContracts stands
  aLimit,        \* its limit argument
  aResult,       \* the list it returns
  epc,           \* where analyzeContractEcosystem stands
  eResult        \* the active contracts in what it returns

facadeVars == <<apc, aLimit, aResult, epc, eResult>>

(***************************************************************************)
(* State of the transaction loop of discoverActiveContracts on one block.  *)
(***************************************************************************)
VARIABLES
  spc,           \* where the loop stands
  txCount,       \* block.transactions.length
  sJ,            \* the loop's index
  hSampled,      \* history: the indices whose pair was requested
  hRequests      \* history: the number of pairs requested

samplingVars == <<spc, txCount, sJ, hSampled, hRequests>>

(***************************************************************************)
(* The chain-client requests of one discoverActiveContracts call: which    *)
(* are in flight, and in what order they were issued.                      *)
(***************************************************************************)
VARIABLES
  schedule       \* the scan's position and locals, the state of the two
                 \* promises of the pair awaited, the requests of earlier
                 \* pairs still in flight, and the heights requested so far

scheduleVars == <<schedule>>

(***************************************************************************)
(* The blocks and transactions one getNewDeployments call looks at.        *)
(***************************************************************************)
VARIABLES
  lookback       \* the call's argument, position and loop indices, the
                 \* heights requested, the indices inspected in the block at
                 \* hand, and the number of records pushed and returned

lookbackVars == <<lookback>>

(***************************************************************************)
(* The tool requests of MegaETHMCPServer.                                  *)
(***************************************************************************)
VARIABLES
  tools          \* the call-tool request at hand: its name, the handler
                 \* awaited, whether it threw, and the response; the names
                 \* last advertised; the number of calls made

toolsVars == <<tools>>

(***************************************************************************)
(* One getNetworkStats or analyzeTransactions call.                        *)
(***************************************************************************)
VARIABLES
  analysis          \* the operation called, its position, what it has fetched
                 \* and summed, the record it returned, and whether a chain
                 \* fetch or a transaction fetch failed on the way

statsVars == <<analysis>>

\* what the steps of one operation leave alone: the state of the others
outsideScan ==
  <<categoryVars, classifyVars, functionVars, typeVars, deployVars,
    concurrentVars, facadeVars, samplingVars, scheduleVars, lookbackVars,
    toolsVars, statsVars>>

outsideCategory ==
  <<scanVars, classifyVars, functionVars, typeVars, deployVars, concurrentVars,
    facadeVars, samplingVars, scheduleVars, lookbackVars, toolsVars, statsVars>>

outsideClassify ==
  <<scanVars, categoryVars, functionVars, typeVars, deployVars, concurrentVars,
    facadeVars, samplingVars, scheduleVars, lookbackVars, toolsVars, statsVars>>

outsideFunctions ==
  <<scanVars, categoryVars, classifyVars, typeVars, deployVars, concurrentVars,
    facadeVars, samplingVars, scheduleVars, lookbackVars, toolsVars, statsVars>>

outsideTypes ==
  <<scanVars, categoryVars, classifyVars, functionVars, deployVars,
    concurrentVars, facadeVars, samplingVars, scheduleVars, lookbackVars,
    toolsVars, statsVars>>

outsideDeployments ==
  <<scanVars, categoryVars, classifyVars, functionVars, typeVars,
    concurrentVars, facadeVars, samplingVars, scheduleVars, lookbackVars,
    toolsVars, statsVars>>

outsideConcurrent ==
  <<scanVars, categoryVars, classifyVars, functionVars, typeVars, deployVars,
    facadeVars, samplingVars, scheduleVars, lookbackVars, toolsVars, statsVars>>

outsideFacade ==
  <<scanVars, categoryVars, classifyVars, functionVars, typeVars, deployVars,
    concurrentVars, samplingVars, scheduleVars, lookbackVars, toolsVars,
    statsVars>>

outsideSampling ==
  <<scanVars, categoryVars, classifyVars, functionVars, typeVars, deployVars,
    concurrentVars, facadeVars, scheduleVars, lookbackVars, toolsVars,
    statsVars>>

outsideSchedule ==
  <<scanVars, categoryVars, classifyVars, functionVars, typeVars, deployVars,
    concurrentVars, facadeVars, samplingVars, lookbackVars, toolsVars,
    statsVars>>

outsideLookback ==
  <<scanVars, categoryVars, classifyVars, functionVars, typeVars, deployVars,
    concurrentVars, facadeVars, samplingVars, scheduleVars, toolsVars,
    statsVars>>

outsideTools ==
  <<scanVars, categoryVars, classifyVars, functionVars, typeVars, deployVars,
    concurrentVars, facadeVars, samplingVars, scheduleVars, lookbackVars,
    statsVars>>

outsideStats ==
  <<scanVars, categoryVars, classifyVars, functionVars, typeVars, deployVars,
    concurrentVars, facadeVars, samplingVars, scheduleVars, lookbackVars,
    toolsVars>>

\* what getActiveContracts and its scan leave alone
outsideActiveContracts ==
  <<categoryVars, classifyVars, functionVars, typeVars, deployVars,
    concurrentVars, samplingVars, scheduleVars, lookbackVars, toolsVars,
    statsVars>>

NoBlock == [timestamp |-> 0, transactions |-> <<>>]

\* the lowercase forms of the addresses a record can be keyed by
Keys == {ToLowerCase(a) : a \in Recipients \cup Created}

BlocksArgs == (0 - 1)..MaxBlocks

ScanInit ==
  /\ pc = "idle"
  /\ blocksToAnalyze = 0
  /\ currentBlock = 0
  /\ i = 0
  /\ block = NoBlock
  /\ j = 0
  /\ contracts = EmptyMap
  /\ result = <<>>
  /\ raised = FALSE
  /\ event = "none"
  /\ hBlocksOk = 0
  /\ hChainTxs = 0
  /\ hFetched = {}
  /\ hTouched = <<>>
  /\ hRecipient = [a \in Keys |-> 0]
  /\ hTimes = [a \in Keys |-> {}]

\* the transactions and receipts the chain client can return for a hash
TxResponses(hash) ==
  [hash : {hash}, from : Senders, to : Recipients \cup {Null}, data : CallData]

TxReceipts(blockNumber) ==
  [gasUsed : GasValues, contractAddress : Created \cup {Null},
   blockNumber : {blockNumber}]

\* A receipt carries a created-contract address for a transaction without a
\* recipient; one answer that carries both a recipient and a created address
\* is kept, to tell apart the order of the two tests of lines 77-83.
PairShape(tx, receipt) ==
  Truthy(receipt.contractAddress) => tx.to \in {Null, AddrB}

\* a variant whose catch throws the error again
ScanFailedRethrows ==
  /\ result' = <<>>
  /\ raised' = TRUE
  /\ pc' = "done"

\* lines 99-102: the catch of the whole scan
ScanFailed ==
  /\ result' = <<>>
  /\ raised' = FALSE
  /\ pc' = "done"

\* line 45: the call
Discover ==
  /\ pc = "idle"
  /\ \E b \in BlocksArgs : blocksToAnalyze' = b
  /\ pc' = "height"
  /\ event' = "called"
  /\ UNCHANGED <<currentBlock, i, block, j, contracts, result, raised, hBlocksOk,
                 hChainTxs, hFetched, hTouched, hRecipient, hTimes>>
  /\ UNCHANGED outsideScan

\* line 49: getBlockNumber answers
HeightFetched ==
  /\ pc = "height"
  /\ \E h \in ChainHeights : currentBlock' = h
  /\ pc' = "loop"
  /\ event' = "height"
  /\ UNCHANGED <<blocksToAnalyze, i, block, j, contracts, result, raised, hBlocksOk,
                 hChainTxs, hFetched, hTouched, hRecipient, hTimes>>
  /\ UNCHANGED outsideScan

\* line 49: getBlockNumber fails
HeightFailed ==
  /\ pc = "height"
  /\ ScanFailed
  /\ event' = "heightFailed"
  /\ UNCHANGED <<blocksToAnalyze, currentBlock, i, block, j, contracts, hBlocksOk,
                 hChainTxs, hFetched, hTouched, hRecipient, hTimes>>
  /\ UNCHANGED outsideScan

\* lines 55-63: getBlock answers with a block that lists n hashes
BlockFetched ==
  /\ pc = "loop"
  /\ i < blocksToAnalyze
  /\ \E n \in 0..Min(MaxTxs, MaxChainTxs - hChainTxs) :
       /\ block' = [timestamp |-> BlockTimestamp(currentBlock - i),
                    transactions |-> [k \in 1..n |-> TxHash(i, k - 1)]]
       /\ hChainTxs' = hChainTxs + n
  /\ j' = 0
  /\ pc' = "txs"
  /\ event' = "block"
  /\ hBlocksOk' = hBlocksOk + 1
  /\ hFetched' = {}
  /\ UNCHANGED <<blocksToAnalyze, currentBlock, i, contracts, result, raised,
                 hTouched, hRecipient, hTimes>>
  /\ UNCHANGED outsideScan

\* lines 55-57: getBlock answers null, or a block without a transaction list
BlockMissing ==
  /\ pc = "loop"
  /\ i < blocksToAnalyze
  /\ i' = i + 1
  /\ event' = "blockMissing"
  /\ UNCHANGED <<pc, blocksToAnalyze, currentBlock, block, j, contracts, result,
                 raised, hBlocksOk, hChainTxs, hFetched, hTouched,
                 hRecipient, hTimes>>
  /\ UNCHANGED outsideScan

\* line 55: getBlock fails; nothing inside the loop catches it
BlockFailed ==
  /\ pc = "loop"
  /\ i < blocksToAnalyze
  /\ ScanFailed
  /\ event' = "blockFailed"
  /\ UNCHANGED <<blocksToAnalyze, currentBlock, i, block, j, contracts, hBlocksOk,
                 hChainTxs, hFetched, hTouched, hRecipient, hTimes>>
  /\ UNCHANGED outsideScan

\* the history of one folded pair: raw is the address as the chain client
\* gave it
Touch(raw, ts, asRecipient) ==
  LET addr == ToLowerCase(raw)
  IN  /\ hTouched' = IF \E p \in 1..Len(hTouched) : hTouched[p] = addr
                     THEN hTouched ELSE Append(hTouched, addr)
      /\ hRecipient' = IF asRecipient
                       THEN [hRecipient EXCEPT ![addr] = @ + 1] ELSE hRecipient
      /\ hTimes' = [hTimes EXCEPT ![addr] = @ \cup {ts}]

\* lines 66-83: both fetches of the pair answer
PairFetched ==
  /\ pc = "txs"
  /\ j < Len(block.transactions)
  /\ \E tx \in TxResponses(block.transactions[j + 1]),
        receipt \in TxReceipts(currentBlock - i) :
       /\ PairShape(tx, receipt)
       /\ contracts' = FoldPair(tx, receipt, contracts, block.timestamp)
       /\ IF Truthy(tx.to)
          THEN Touch(tx.to, block.timestamp, TRUE)
          ELSE IF Truthy(receipt.contractAddress)
          THEN Touch(receipt.contractAddress, block.timestamp, FALSE)
          ELSE UNCHANGED <<hTouched, hRecipient, hTimes>>
       /\ event' = "pairFetched"
  /\ j' = j + Step(Len(block.transactions))
  /\ hFetched' = hFetched \cup {j}
  /\ UNCHANGED <<pc, blocksToAnalyze, currentBlock, i, block, result, raised,
                 hBlocksOk, hChainTxs>>
  /\ UNCHANGED outsideScan

\* a variant that leaves the transaction loop of the block
PairSkippedBreaks ==
  /\ pc = "txs"
  /\ j < Len(block.transactions)
  /\ j' = Len(block.transactions)
  /\ \E e \in {"pairFailed", "pairMissing"} : event' = e
  /\ hFetched' = hFetched \cup {j}
  /\ UNCHANGED <<pc, blocksToAnalyze, currentBlock, i, block, contracts, result,
                 raised, hBlocksOk, hChainTxs, hTouched, hRecipient, hTimes>>
  /\ UNCHANGED outsideScan

\* lines 69-74, 85-88: a fetch of the pair fails or answers null
PairSkipped ==
  /\ pc = "txs"
  /\ j < Len(block.transactions)
  /\ j' = j + Step(Len(block.transactions))
  /\ \E e \in {"pairFailed", "pairMissing"} : event' = e
  /\ hFetched' = hFetched \cup {j}
  /\ UNCHANGED <<pc, blocksToAnalyze, currentBlock, i, block, contracts, result,
                 raised, hBlocksOk, hChainTxs, hTouched, hRecipient, hTimes>>
  /\ UNCHANGED outsideScan

\* line 91: the transaction loop is over
BlockDone ==
  /\ pc = "txs"
  /\ j >= Len(block.transactions)
  /\ IF i > 0
     THEN pc' = "delay" /\ i' = i
     ELSE pc' = "loop" /\ i' = i + 1
  /\ event' = "blockDone"
  /\ UNCHANGED <<blocksToAnalyze, currentBlock, block, j, contracts, result, raised,
                 hBlocksOk, hChainTxs, hFetched, hTouched, hRecipient, hTimes>>
  /\ UNCHANGED outsideScan

\* line 91: the 100 ms timer fires
Delayed ==
  /\ pc = "delay"
  /\ pc' = "loop"
  /\ i' = i + 1
  /\ event' = "delayed"
  /\ UNCHANGED <<blocksToAnalyze, currentBlock, block, j, contracts, result, raised,
                 hBlocksOk, hChainTxs, hFetched, hTouched, hRecipient, hTimes>>
  /\ UNCHANGED outsideScan

\* lines 94-97: the block loop is over
Finish ==
  /\ pc = "loop"
  /\ i >= blocksToAnalyze
  /\ result' = SortedContracts(contracts)
  /\ pc' = "done"
  /\ event' = "returned"
  /\ UNCHANGED <<blocksToAnalyze, currentBlock, i, block, j, contracts, raised,
                 hBlocksOk, hChainTxs, hFetched, hTouched, hRecipient, hTimes>>
  /\ UNCHANGED outsideScan

vars ==
  <<scanVars, categoryVars, classifyVars, functionVars, typeVars, deployVars,
    concurrentVars, facadeVars, samplingVars, scheduleVars, lookbackVars,
    toolsVars, statsVars>>

(***************************************************************************)
(* MegaETHAnalytics: the transaction categories.                           *)
(***************************************************************************)
Categories == {"Transfer", "Contract Call", "Contract Deploy"}

\* tx.value in units of 0.0001 ETH: nothing, 0.5, 1.2345 and 2 ETH
Values == {0, 5000, 12345, 20000}

\* the threshold argument, in the same unit: 1 ETH and 1.2 ETH
Thresholds == {10000, 12000}

\* the wall clock read by new Date(), in milliseconds
Clock == {DateOf(2000)}

\* An ethers TransactionResponse: the call-data is its field data, and it has
\* no field input, which reads as undefined.
CategoryTxs(hash) ==
  [hash : {hash}, from : {SenderE}, to : {AddrB, Null}, value : Values,
   data : {DataEmpty, DataTransfer}, input : {Null}]

\* lines 898-903.  tx.value is a bigint: it is falsy when zero and never
\* equal to the string '0'.
CategorizeTransaction(tx) ==
  IF ~Truthy(tx.to) THEN "Contract Deploy"
  ELSE IF tx.value # 0 THEN "Transfer"
  ELSE IF Truthy(tx.input) /\ tx.input # DataEmpty THEN "Contract Call"
  ELSE "Unknown"

\* lines 479-485
BlockTransactionType(tx) ==
  IF ~Truthy(tx.to) THEN "Contract Deploy"
  ELSE IF tx.data = DataEmpty THEN "Transfer"
  ELSE "Contract Call"

\* Math.round(x / y) for x >= 0, y > 0
RoundDiv(x, y) == (2 * x + y) \div (2 * y)

\* lines 495-500; Object.entries lists the counters in the order of line 471
TypeOrder == <<"Transfer", "Contract Call", "Contract Deploy">>

Breakdown(counts) ==
  LET total == counts["Transfer"] + counts["Contract Call"] + counts["Contract Deploy"]
  IN  [p \in 1..3 |->
        [type |-> TypeOrder[p],
         count |-> counts[TypeOrder[p]],
         percentage |-> IF total > 0 THEN RoundDiv(counts[TypeOrder[p]] * 100, total)
                        ELSE 0]]

\* line 475: txHashes.slice(0, 10)
BlockSliceLength == 10

\* line 580
WhaleBlocks == 3

\* line 592: block.transactions.slice(0, 5)
WhaleSliceLength == 5

\* line 610: Math.round(valueInEth * 1000) / 1000, in units of 0.0001 ETH
RoundedValue(v) == ((v + 5) \div 10) * 10

\* lines 607-609: s.substring(0, n) + '...' + s.substring(s.length - 4)
Shortened(s, n) ==
  Substring(s, 0, n) \o <<".", ".", ".">> \o Substring(s, Max(Len(s) - 4, 0), Len(s))

ContractCreation == <<"C", "o", "n", "t", "r", "a", "c", "t", " ",
                      "C", "r", "e", "a", "t", "i", "o", "n">>

\* lines 606-614; source is history: the transaction the entry was made from
WhaleEntry(tx, blk, blockNumber) ==
  [hash |-> Shortened(tx.hash, 10),
   from |-> Shortened(tx.from, 8),
   to |-> IF Truthy(tx.to) THEN Shortened(tx.to, 8) ELSE ContractCreation,
   value |-> RoundedValue(tx.value),
   timestamp |-> DateOf(blk.timestamp),
   type |-> CategorizeTransaction(tx),
   blockNumber |-> blockNumber,
   source |-> tx]

\* lines 640-649: the example entry
ExampleWhale(now) ==
  [hash |-> <<"0", "x", "e", "x", "a", "m", "p", "l", "e", ".", ".", ".", "1", "2", "3", "4">>,
   from |-> <<"0", "x", "t", "e", "s", "t", ".", ".", ".", "5", "6", "7", "8">>,
   to |-> <<"0", "x", "w", "a", "l", "l", "e", "t", ".", ".", ".", "9", "a", "b", "c">>,
   value |-> threshold + 5000,
   timestamp |-> now,
   type |-> "Transfer",
   blockNumber |-> wCurrent]

\* history: the category by the order of precedence: no recipient, then empty
\* call-data, then anything else, whatever the value
CategoryByPrecedence(tx) ==
  IF tx.to = Null THEN "Contract Deploy"
  ELSE IF Len(tx.data) <= 2 THEN "Transfer"
  ELSE "Contract Call"

CategoryInit ==
  /\ cpc = "idle"
  /\ txHashes = <<>>
  /\ aIdx = 0
  /\ types = [c \in Categories |-> 0]
  /\ breakdown = <<>>
  /\ threshold = 0
  /\ wCurrent = 0
  /\ wI = 0
  /\ wBlock = NoBlock
  /\ wJ = 0
  /\ whales = <<>>
  /\ wResult = <<>>
  /\ hCategories = [c \in Categories |-> 0]
  /\ hWhaleTxs = 0

\* line 470: the call, by getNetworkStats or analyzeTransactions, with the
\* leading hashes of the latest block
AnalyzeBlockTransactions ==
  /\ cpc = "idle"
  /\ \E n \in 0..MaxChainTxs : txHashes' = [k \in 1..n |-> TxHash(0, k - 1)]
  /\ cpc' = "types"
  /\ UNCHANGED <<aIdx, types, breakdown, threshold, wCurrent, wI, wBlock, wJ,
                 whales, wResult, hCategories, hWhaleTxs>>
  /\ UNCHANGED outsideCategory

\* lines 477-486: getTransaction answers with a transaction
TypeCounted ==
  /\ cpc = "types"
  /\ aIdx < Min(BlockSliceLength, Len(txHashes))
  /\ \E tx \in CategoryTxs(txHashes[aIdx + 1]) :
       /\ types' = [types EXCEPT ![BlockTransactionType(tx)] = @ + 1]
       /\ hCategories' = [hCategories EXCEPT ![CategoryByPrecedence(tx)] = @ + 1]
  /\ aIdx' = aIdx + 1
  /\ UNCHANGED <<cpc, txHashes, breakdown, threshold, wCurrent, wI, wBlock, wJ,
                 whales, wResult, hWhaleTxs>>
  /\ UNCHANGED outsideCategory

\* lines 477-478, 487-489: getTransaction fails or answers null
TypeSkipped ==
  /\ cpc = "types"
  /\ aIdx < Min(BlockSliceLength, Len(txHashes))
  /\ aIdx' = aIdx + 1
  /\ UNCHANGED <<cpc, txHashes, types, breakdown, threshold, wCurrent, wI, wBlock,
                 wJ, whales, wResult, hCategories, hWhaleTxs>>
  /\ UNCHANGED outsideCategory

\* lines 495-500
TypesReturned ==
  /\ cpc = "types"
  /\ aIdx >= Min(BlockSliceLength, Len(txHashes))
  /\ breakdown' = Breakdown(types)
  /\ cpc' = "done"
  /\ UNCHANGED <<txHashes, aIdx, types, threshold, wCurrent, wI, wBlock, wJ,
                 whales, wResult, hCategories, hWhaleTxs>>
  /\ UNCHANGED outsideCategory

\* line 572: the call
DetectWhaleActivity ==
  /\ cpc = "idle"
  /\ \E t \in Thresholds : threshold' = t
  /\ cpc' = "whaleHeight"
  /\ UNCHANGED <<txHashes, aIdx, types, breakdown, wCurrent, wI, wBlock, wJ,
                 whales, wResult, hCategories, hWhaleTxs>>
  /\ UNCHANGED outsideCategory

\* line 576: getBlockNumber answers
WhaleHeightFetched ==
  /\ cpc = "whaleHeight"
  /\ \E h \in ChainHeights : wCurrent' = h
  /\ cpc' = "whaleLoop"
  /\ UNCHANGED <<txHashes, aIdx, types, breakdown, threshold, wI, wBlock, wJ,
                 whales, wResult, hCategories, hWhaleTxs>>
  /\ UNCHANGED outsideCategory

\* lines 576, 654-657: getBlockNumber fails
WhaleHeightFailed ==
  /\ cpc = "whaleHeight"
  /\ wResult' = <<>>
  /\ cpc' = "done"
  /\ UNCHANGED <<txHashes, aIdx, types, breakdown, threshold, wCurrent, wI, wBlock,
                 wJ, whales, hCategories, hWhaleTxs>>
  /\ UNCHANGED outsideCategory

\* lines 584-589: getBlock answers with a block that lists n hashes
WhaleBlockFetched ==
  /\ cpc = "whaleLoop"
  /\ wI < WhaleBlocks
  /\ \E n \in 0..Min(MaxTxs, MaxChainTxs - hWhaleTxs) :
       /\ wBlock' = [timestamp |-> BlockTimestamp(wCurrent - wI),
                     transactions |-> [k \in 1..n |-> TxHash(wI, k - 1)]]
       /\ hWhaleTxs' = hWhaleTxs + n
  /\ wJ' = 0
  /\ cpc' = "whaleTxs"
  /\ UNCHANGED <<txHashes, aIdx, types, breakdown, threshold, wCurrent, wI,
                 whales, wResult, hCategories>>
  /\ UNCHANGED outsideCategory

\* lines 585-587, 623-627: getBlock fails, answers null, or answers a block
\* without a transaction list
WhaleBlockSkipped ==
  /\ cpc = "whaleLoop"
  /\ wI < WhaleBlocks
  /\ wI' = wI + 1
  /\ UNCHANGED <<cpc, txHashes, aIdx, types, breakdown, threshold, wCurrent,
                 wBlock, wJ, whales, wResult, hCategories, hWhaleTxs>>
  /\ UNCHANGED outsideCategory

\* lines 592-617: getTransaction answers with a transaction
WhaleTxFetched ==
  /\ cpc = "whaleTxs"
  /\ wJ < Min(WhaleSliceLength, Len(wBlock.transactions))
  /\ \E tx \in CategoryTxs(wBlock.transactions[wJ + 1]) :
       whales' = IF tx.value # 0 /\ tx.value >= threshold
                 THEN Append(whales, WhaleEntry(tx, wBlock, wCurrent - wI))
                 ELSE whales
  /\ wJ' = wJ + 1
  /\ UNCHANGED <<cpc, txHashes, aIdx, types, breakdown, threshold, wCurrent, wI,
                 wBlock, wResult, hCategories, hWhaleTxs>>
  /\ UNCHANGED outsideCategory

\* lines 594-595, 618-621: getTransaction fails or answers null
WhaleTxSkipped ==
  /\ cpc = "whaleTxs"
  /\ wJ < Min(WhaleSliceLength, Len(wBlock.transactions))
  /\ wJ' = wJ + 1
  /\ UNCHANGED <<cpc, txHashes, aIdx, types, breakdown, threshold, wCurrent, wI,
                 wBlock, whales, wResult, hCategories, hWhaleTxs>>
  /\ UNCHANGED outsideCategory

\* line 622: the transaction loop is over
WhaleBlockDone ==
  /\ cpc = "whaleTxs"
  /\ wJ >= Min(WhaleSliceLength, Len(wBlock.transactions))
  /\ wI' = wI + 1
  /\ cpc' = "whaleLoop"
  /\ UNCHANGED <<txHashes, aIdx, types, breakdown, threshold, wCurrent, wBlock,
                 wJ, whales, wResult, hCategories, hWhaleTxs>>
  /\ UNCHANGED outsideCategory

\* lines 630-652: the block loop is over; the threshold is at most 1 ETH
WhalesReturned ==
  /\ cpc = "whaleLoop"
  /\ wI >= WhaleBlocks
  /\ whales' = SortDescBy(whales, [k \in 1..Len(whales) |-> whales[k].value])
  /\ IF Len(whales) = 0 /\ threshold <= 10000
     THEN \E now \in Clock : wResult' = <<ExampleWhale(now)>>
     ELSE wResult' = whales'
  /\ cpc' = "done"
  /\ UNCHANGED <<txHashes, aIdx, types, breakdown, threshold, wCurrent, wI, wBlock,
                 wJ, hCategories, hWhaleTxs>>
  /\ UNCHANGED outsideCategory

(***************************************************************************)
(* identifyContractType applied to sample transactions.                    *)
(***************************************************************************)
\* leading four bytes of the call-data samples: one selector of each group of
\* the table, the first of them also in capitals, and one that is not listed
SamplePrefixes ==
  { <<"a", "9", "0", "5", "9", "c", "b", "b">>,
    <<"A", "9", "0", "5", "9", "C", "B", "B">>,
    <<"4", "2", "8", "4", "2", "e", "0", "e">>,
    <<"1", "f", "0", "0", "c", "a", "7", "4">>,
    <<"b", "6", "b", "5", "5", "f", "2", "5">>,
    <<"e", "2", "b", "b", "b", "1", "5", "8">>,
    <<"1", "2", "3", "4", "5", "6", "7", "8">> }

\* the bytes that follow the leading four: none, a zero word, and words that
\* spell a selector of the table
SampleArguments ==
  { <<>>,
    <<"0", "0", "0", "0", "0", "0", "0", "0">>,
    <<"a", "9", "0", "5", "9", "c", "b", "b">>,
    <<"2", "e", "1", "a", "7", "d", "4", "d">> }

SampleData ==
  {DataEmpty, DataShort}
    \cup {DataEmpty \o p \o a : p \in SamplePrefixes, a \in SampleArguments}

\* receipt.gasUsed at and around the limits of the gas bands
SampleGas == {21000, 100000, 100001, 500000, 500001, 1000000, 1000001, 2000000}

ClassifyIdle ==
  /\ idpc = "idle"
  /\ idData = Null
  /\ idOther = Null
  /\ idGas = 0
  /\ idLabel = "none"
  /\ idOtherLabel = "none"

\* the two transactions and their receipts are given
ClassifyInit ==
  /\ idpc = "given"
  /\ idData \in SampleData
  /\ idOther \in SampleData
  /\ idGas \in SampleGas
  /\ idLabel = "none"
  /\ idOtherLabel = "none"

\* lines 178-217, once for each transaction
Identified ==
  /\ idpc = "given"
  /\ idLabel' = IdentifyContractType([data |-> idData], [gasUsed |-> idGas])
  /\ idOtherLabel' = IdentifyContractType([data |-> idOther], [gasUsed |-> idGas])
  /\ idpc' = "labelled"
  /\ UNCHANGED <<idData, idOther, idGas>>
  /\ UNCHANGED outsideClassify

(***************************************************************************)
(* ContractAnalyzer.getPopularFunctions and getFunctionName, and           *)
(* MegaETHAnalytics.getContractFunctions.                                  *)
(***************************************************************************)
\* largest limit a caller passes
MaxLimit == 2

\* the limit is an integer of the caller's choice (the API route passes
\* parseInt(req.query.limit) || 10)
Limits == (0 - 1)..MaxLimit

\* line 252
PopularBlocks == 5

\* line 256: block.transactions.slice(0, 20)
PopularSliceLength == 20

DataApprove == <<"0", "x", "0", "9", "5", "e", "a", "7", "b", "3">>

\* the transactions and receipts of the blocks: with or without recipient,
\* call-data of 3 bytes or of 4 with one of two selectors
FunctionTxs(hash) ==
  [hash : {hash}, from : {SenderE}, to : {AddrB, Null},
   data : {DataShort, DataTransfer, DataApprove}]

FunctionReceipts == [gasUsed : {21000, 21001}]

Signatures == {Substring(d, 0, 10) : d \in {DataTransfer, DataApprove}}

\* lines 300-318
KnownFunctions == <<
  [signature |-> <<"0", "x", "a", "9", "0", "5", "9", "c", "b", "b">>,
   name |-> "transfer(address,uint256)"],
  [signature |-> <<"0", "x", "2", "3", "b", "8", "7", "2", "d", "d">>,
   name |-> "transferFrom(address,address,uint256)"],
  [signature |-> <<"0", "x", "0", "9", "5", "e", "a", "7", "b", "3">>,
   name |-> "approve(address,uint256)"],
  [signature |-> <<"0", "x", "1", "8", "1", "6", "0", "d", "d", "d">>,
   name |-> "totalSupply()"],
  [signature |-> <<"0", "x", "7", "0", "a", "0", "8", "2", "3", "1">>,
   name |-> "balanceOf(address)"],
  [signature |-> <<"0", "x", "4", "2", "8", "4", "2", "e", "0", "e">>,
   name |-> "safeTransferFrom(address,address,uint256)"],
  [signature |-> <<"0", "x", "b", "8", "8", "d", "4", "f", "d", "e">>,
   name |-> "safeTransferFrom(address,address,uint256,bytes)"],
  [signature |-> <<"0", "x", "3", "8", "e", "d", "1", "7", "3", "9">>,
   name |-> "swapExactTokensForTokens(uint256,uint256,address[],address,uint256)"],
  [signature |-> <<"0", "x", "7", "f", "f", "3", "6", "a", "b", "5">>,
   name |-> "swapExactETHForTokens(uint256,address[],address,uint256)"],
  [signature |-> <<"0", "x", "1", "f", "0", "0", "c", "a", "7", "4">>,
   name |-> "getAmountsOut(uint256,address[])"],
  [signature |-> <<"0", "x", "b", "6", "b", "5", "5", "f", "2", "5">>,
   name |-> "deposit(uint256)"],
  [signature |-> <<"0", "x", "2", "e", "1", "a", "7", "d", "4", "d">>,
   name |-> "withdraw(uint256)"],
  [signature |-> <<"0", "x", "e", "2", "b", "b", "b", "1", "5", "8">>,
   name |-> "stake(uint256)"],
  [signature |-> <<"0", "x", "6", "9", "3", "2", "8", "d", "e", "c">>,
   name |-> "withdraw(address,uint256,address)"],
  [signature |-> <<"0", "x", "b", "7", "a", "1", "6", "2", "5", "1">>,
   name |-> "mint(address,uint256)"],
  [signature |-> <<"0", "x", "4", "0", "c", "1", "0", "f", "1", "9">>,
   name |-> "mint(address,uint256)"],
  [signature |-> <<"0", "x", "4", "4", "0", "a", "5", "e", "2", "0">>,
   name |-> "addLiquidity(...)"] >>

\* line 320; a name is the list of the pieces of its text
GetFunctionName(signature) ==
  LET known == {p \in 1..Len(KnownFunctions) : KnownFunctions[p].signature = signature}
  IN  IF known # {}
      THEN <<KnownFunctions[CHOOSE p \in known : TRUE].name>>
      ELSE <<"Unknown (">> \o signature \o <<")">>

\* lines 263-270: one fetched (transaction, receipt) pair
CountFunction(tx, receipt, stats) ==
  IF Truthy(tx.data) /\ Len(tx.data) >= 10
  THEN LET signature == Substring(tx.data, 0, 10)
           current == MapGetOr(stats, signature, [count |-> 0, gasUsed |-> 0])
       IN  MapSet(stats, signature,
                  [count |-> current.count + 1,
                   gasUsed |-> current.gasUsed + receipt.gasUsed])
  ELSE stats

\* Array.prototype.slice(0, end) for an integer end: a negative end counts
\* from the end of the list
SliceTo(s, end) ==
  LET last == IF end < 0 THEN Max(Len(s) + end, 0) ELSE Min(end, Len(s))
  IN  SubSeq(s, 1, last)

\* lines 280-290
PopularFunctions(stats, lim) ==
  LET list == [p \in 1..Len(stats) |->
                 [signature |-> stats[p].key,
                  name |-> GetFunctionName(stats[p].key),
                  callCount |-> stats[p].val.count,
                  gasUsage |-> stats[p].val.gasUsed,
                  popularity |-> stats[p].val.count]]
      sorted == SortDescBy(list, [k \in 1..Len(list) |-> list[k].callCount])
  IN  SliceTo(sorted, lim)

\* a variant that truncates the average
ContractFunctionsTruncated(list) ==
  [totalFunctions |-> Len(list),
   functions |-> [p \in 1..Len(list) |->
     [signature |-> list[p].signature,
      name |-> list[p].name,
      callCount |-> list[p].callCount,
      gasUsage |-> list[p].gasUsage,
      avgGasPerCall |-> IF list[p].callCount > 0
                        THEN list[p].gasUsage \div list[p].callCount
                        ELSE 0,
      popularity |-> list[p].popularity]]]

\* lines 727-737
ContractFunctions(list) ==
  [totalFunctions |-> Len(list),
   functions |-> [p \in 1..Len(list) |->
     [signature |-> list[p].signature,
      name |-> list[p].name,
      callCount |-> list[p].callCount,
      gasUsage |-> list[p].gasUsage,
      avgGasPerCall |-> IF list[p].callCount > 0
                        THEN RoundDiv(list[p].gasUsage, list[p].callCount)
                        ELSE 0,
      popularity |-> list[p].popularity]]]

NoFunctions == [totalFunctions |-> 0, functions |-> <<>>]

FunctionsInit ==
  /\ fpc = "idle"
  /\ limit = 0
  /\ fCurrent = 0
  /\ fI = 0
  /\ fBlock = NoBlock
  /\ fJ = 0
  /\ functionStats = EmptyMap
  /\ popular = <<>>
  /\ functions = NoFunctions
  /\ hFunctionTxs = 0
  /\ hCalls = [g \in Signatures |-> 0]
  /\ hCallGas = [g \in Signatures |-> 0]

\* lines 292-295: the catch of getPopularFunctions; lines 727-737 then map the
\* empty list
PopularFailed ==
  /\ popular' = <<>>
  /\ functions' = ContractFunctions(<<>>)
  /\ fpc' = "done"

\* line 718: the call
GetContractFunctions ==
  /\ fpc = "idle"
  /\ \E lim \in Limits : limit' = lim
  /\ fpc' = "height"
  /\ UNCHANGED <<fCurrent, fI, fBlock, fJ, functionStats, popular, functions,
                 hFunctionTxs, hCalls, hCallGas>>
  /\ UNCHANGED outsideFunctions

\* line 248: getBlockNumber answers
PopularHeightFetched ==
  /\ fpc = "height"
  /\ \E h \in ChainHeights : fCurrent' = h
  /\ fpc' = "loop"
  /\ UNCHANGED <<limit, fI, fBlock, fJ, functionStats, popular, functions,
                 hFunctionTxs, hCalls, hCallGas>>
  /\ UNCHANGED outsideFunctions

\* line 248: getBlockNumber fails
PopularHeightFailed ==
  /\ fpc = "height"
  /\ PopularFailed
  /\ UNCHANGED <<limit, fCurrent, fI, fBlock, fJ, functionStats, hFunctionTxs,
                 hCalls, hCallGas>>
  /\ UNCHANGED outsideFunctions

\* lines 253-256: getBlock answers with a block that lists n hashes
PopularBlockFetched ==
  /\ fpc = "loop"
  /\ fI < PopularBlocks
  /\ \E n \in 0..Min(MaxTxs, MaxChainTxs - hFunctionTxs) :
       /\ fBlock' = [timestamp |-> BlockTimestamp(fCurrent - fI),
                     transactions |-> [k \in 1..n |-> TxHash(fI, k - 1)]]
       /\ hFunctionTxs' = hFunctionTxs + n
  /\ fJ' = 0
  /\ fpc' = "txs"
  /\ UNCHANGED <<limit, fCurrent, fI, functionStats, popular, functions, hCalls,
                 hCallGas>>
  /\ UNCHANGED outsideFunctions

\* lines 253-254: getBlock answers null
PopularBlockMissing ==
  /\ fpc = "loop"
  /\ fI < PopularBlocks
  /\ fI' = fI + 1
  /\ UNCHANGED <<fpc, limit, fCurrent, fBlock, fJ, functionStats, popular,
                 functions, hFunctionTxs, hCalls, hCallGas>>
  /\ UNCHANGED outsideFunctions

\* line 253: getBlock fails; nothing inside the loop catches it
PopularBlockFailed ==
  /\ fpc = "loop"
  /\ fI < PopularBlocks
  /\ PopularFailed
  /\ UNCHANGED <<limit, fCurrent, fI, fBlock, fJ, functionStats, hFunctionTxs,
                 hCalls, hCallGas>>
  /\ UNCHANGED outsideFunctions

\* lines 258-270: both fetches of the pair answer
FunctionCounted ==
  /\ fpc = "txs"
  /\ fJ < Min(PopularSliceLength, Len(fBlock.transactions))
  /\ \E tx \in FunctionTxs(fBlock.transactions[fJ + 1]), receipt \in FunctionReceipts :
       /\ functionStats' = CountFunction(tx, receipt, functionStats)
       /\ IF Truthy(tx.to) /\ Len(tx.data) >= 10
          THEN /\ hCalls' = [hCalls EXCEPT ![Substring(tx.data, 0, 10)] = @ + 1]
               /\ hCallGas' = [hCallGas EXCEPT
                                 ![Substring(tx.data, 0, 10)] = @ + receipt.gasUsed]
          ELSE UNCHANGED <<hCalls, hCallGas>>
  /\ fJ' = fJ + 1
  /\ UNCHANGED <<fpc, limit, fCurrent, fI, fBlock, popular, functions, hFunctionTxs>>
  /\ UNCHANGED outsideFunctions

\* lines 258-263, 271-273: a fetch of the pair fails or answers null
FunctionSkipped ==
  /\ fpc = "txs"
  /\ fJ < Min(PopularSliceLength, Len(fBlock.transactions))
  /\ fJ' = fJ + 1
  /\ UNCHANGED <<fpc, limit, fCurrent, fI, fBlock, functionStats, popular,
                 functions, hFunctionTxs, hCalls, hCallGas>>
  /\ UNCHANGED outsideFunctions

\* line 276: the transaction loop is over
PopularBlockDone ==
  /\ fpc = "txs"
  /\ fJ >= Min(PopularSliceLength, Len(fBlock.transactions))
  /\ IF fI > 0
     THEN fpc' = "delay" /\ fI' = fI
     ELSE fpc' = "loop" /\ fI' = fI + 1
  /\ UNCHANGED <<limit, fCurrent, fBlock, fJ, functionStats, popular, functions,
                 hFunctionTxs, hCalls, hCallGas>>
  /\ UNCHANGED outsideFunctions

\* line 276: the 100 ms timer fires
PopularDelayed ==
  /\ fpc = "delay"
  /\ fpc' = "loop"
  /\ fI' = fI + 1
  /\ UNCHANGED <<limit, fCurrent, fBlock, fJ, functionStats, popular, functions,
                 hFunctionTxs, hCalls, hCallGas>>
  /\ UNCHANGED outsideFunctions

\* lines 280-290, 727-737: the block loop is over
FunctionsReturned ==
  /\ fpc = "loop"
  /\ fI >= PopularBlocks
  /\ popular' = PopularFunctions(functionStats, limit)
  /\ functions' = ContractFunctions(popular')
  /\ fpc' = "returned"
  /\ UNCHANGED <<limit, fCurrent, fI, fBlock, fJ, functionStats, hFunctionTxs,
                 hCalls, hCallGas>>
  /\ UNCHANGED outsideFunctions

(***************************************************************************)
(* JavaScript numbers (IEEE 754 binary64), as far as Math.round((count /   *)
(* total) * 100) needs them.  A positive number is a significand of 53     *)
(* bits, the first of them 1, and a scale: its value is the integer the    *)
(* bits spell, divided by 2^scale.  Every operation rounds its exact       *)
(* result to the nearest such number, a tie to the one whose last bit is   *)
(* 0.                                                                      *)
(***************************************************************************)
SignificandBits == 53

RECURSIVE Pow2(_)
Pow2(n) == IF n = 0 THEN 1 ELSE 2 * Pow2(n - 1)

RECURSIVE BitsValue(_)
BitsValue(bits) ==
  IF Len(bits) = 0 THEN 0
  ELSE 2 * BitsValue(SubSeq(bits, 1, Len(bits) - 1)) + bits[Len(bits)]

\* the n bits, high bit first, of an integer 0 <= v < 2^n
IntegerBits(v, n) == [q \in 1..n |-> (v \div Pow2(n - q)) % 2]

\* 2^n modulo t, for t * t and 256 * t within the integers
RECURSIVE PowerMod(_, _, _)
PowerMod(base, n, t) ==
  IF n = 0 THEN 1 % t ELSE (base * PowerMod(base, n - 1, t)) % t

Pow2Mod(n, t) == (PowerMod(256 % t, n \div 8, t) * Pow2(n % 8)) % t

\* the first n bits of rem / t for 0 <= rem < t, and the remainder left:
\* after p bits the remainder is rem * 2^p modulo t
QuotientBits(rem, t, n) ==
  [bits |-> [p \in 1..n |-> (2 * ((rem * Pow2Mod(p - 1, t)) % t)) \div t],
   rem |-> (rem * Pow2Mod(n, t)) % t]

\* the significand bits, of value bits / 2^scale, rounded up by one unit in
\* the last place when up holds
RoundedUp(bits, scale, up) ==
  LET zeros == {p \in 1..Len(bits) : bits[p] = 0}
      last == CHOOSE p \in zeros : \A q \in zeros : q <= p
  IN  IF ~up THEN [bits |-> bits, scale |-> scale]
      ELSE IF zeros = {}
      THEN [bits |-> [p \in 1..Len(bits) |-> IF p = 1 THEN 1 ELSE 0],
            scale |-> scale - 1]
      ELSE [bits |-> [p \in 1..Len(bits) |->
                       IF p < last THEN bits[p] ELSE IF p = last THEN 1 ELSE 0],
            scale |-> scale]

\* count / total for integers 0 < count <= total
JsDivide(count, total) ==
  LET shift == CHOOSE k \in 0..30 :
                 /\ count * Pow2(k) >= total
                 /\ (k = 0 \/ count * Pow2(k - 1) < total)
      lead == count * Pow2(shift)
      quotient == QuotientBits(lead - total, total, SignificandBits - 1)
      significand == <<1>> \o quotient.bits
      above == \/ 2 * quotient.rem > total
               \/ 2 * quotient.rem = total /\ significand[SignificandBits] = 1
  IN  RoundedUp(significand, SignificandBits - 1 + shift, above)

\* the 60 bits of 100 times the integer that 53 bits spell, computed on
\* the low 20 bits, the middle 20 and the high 13, with the carries between
TimesHundredBits(bits) ==
  LET low == 100 * BitsValue(SubSeq(bits, 34, 53))
      middle == 100 * BitsValue(SubSeq(bits, 14, 33)) + low \div Pow2(20)
      high == 100 * BitsValue(SubSeq(bits, 1, 13)) + middle \div Pow2(20)
  IN  IntegerBits(high, 20) \o IntegerBits(middle % Pow2(20), 20)
        \o IntegerBits(low % Pow2(20), 20)

\* x * 100
JsTimesHundred(x) ==
  LET product == TimesHundredBits(x.bits)
      skip == IF product[1] = 1 THEN 0 ELSE 1
      significand == SubSeq(product, 1 + skip, SignificandBits + skip)
      dropped == SubSeq(product, SignificandBits + skip + 1, Len(product))
      sticky == \E q \in 2..Len(dropped) : dropped[q] = 1
      above == dropped[1] = 1 /\ (sticky \/ significand[SignificandBits] = 1)
  IN  RoundedUp(significand, x.scale - Len(dropped), above)

\* Math.round(x) for x > 0: the nearest integer, a half rounded up
JsRound(x) ==
  LET whole == Len(x.bits) - x.scale
  IN  IF whole < 0 THEN 0
      ELSE BitsValue(SubSeq(x.bits, 1, whole))
             + (IF whole < Len(x.bits) THEN x.bits[whole + 1] ELSE 0)

\* Math.round((count / total) * 100) for integers 0 < count <= total
JsPercentage(count, total) == JsRound(JsTimesHundred(JsDivide(count, total)))

(***************************************************************************)
(* ContractAnalyzer.getContractsByType and                                 *)
(* MegaETHAnalytics.getContractTypeStats.                                  *)
(***************************************************************************)
\* largest number of discovered contracts of one type
MaxSameType == 23

\* the orders in which three types can first appear in the list
TypeOrders ==
  { <<"ERC20 Token", "Unknown", "DEX">>, <<"ERC20 Token", "DEX", "Unknown">>,
    <<"Unknown", "ERC20 Token", "DEX">>, <<"Unknown", "DEX", "ERC20 Token">>,
    <<"DEX", "ERC20 Token", "Unknown">>, <<"DEX", "Unknown", "ERC20 Token">> }

\* a list discoverActiveContracts can return, as far as line 328 reads it:
\* n[1] contracts of the type order[1], then n[2] of order[2], then n[3] of
\* order[3]
DiscoveredList(order, n) ==
  [p \in 1..(n[1] + n[2] + n[3]) |->
     [contractType |-> IF p <= n[1] THEN order[1]
                       ELSE IF p <= n[1] + n[2] THEN order[2]
                       ELSE order[3]]]

\* up to MaxSameType contracts of each of two types and at most one of a
\* third
DiscoveredLists ==
  UNION { { DiscoveredList(order, n) :
              n \in { m \in [1..3 -> 0..MaxSameType] :
                        \E q \in 1..3 : order[q] = "DEX" /\ m[q] <= 1 } } :
          order \in TypeOrders }

\* lines 325-329: the count of each type, the types in the order in which
\* the list first shows them
ContractsByType(list) ==
  LET firsts == {p \in 1..Len(list) :
                   \A q \in 1..(p - 1) : list[q].contractType # list[p].contractType}
      nth(r) == CHOOSE p \in firsts : Cardinality({q \in firsts : q < p}) = r - 1
  IN  [r \in 1..Cardinality(firsts) |->
         [key |-> list[nth(r)].contractType,
          val |-> Cardinality({q \in 1..Len(list) :
                                 list[q].contractType = list[nth(r)].contractType})]]

\* Array.prototype.reduce((sum, v) => sum + v, 0)
RECURSIVE SumOfList(_)
SumOfList(list) ==
  IF Len(list) = 0 THEN 0
  ELSE SumOfList(SubSeq(list, 1, Len(list) - 1)) + list[Len(list)]

\* lines 757-766
ContractTypeStats(stats) ==
  LET total == SumOfList(MapValues(stats))
      entries == [p \in 1..Len(stats) |->
                    [type |-> stats[p].key,
                     count |-> stats[p].val,
                     percentage |-> IF total > 0
                                    THEN JsPercentage(stats[p].val, total)
                                    ELSE 0]]
  IN  [totalContracts |-> total,
       distribution |->
         SortDescBy(entries, [k \in 1..Len(entries) |-> entries[k].count])]

NoTypeStats == [totalContracts |-> 0, distribution |-> <<>>]

TypesIdle ==
  /\ tpc = "idle"
  /\ discovered = <<>>
  /\ typeStats = EmptyMap
  /\ typeResult = NoTypeStats

\* line 324: discoverActiveContracts(5) has returned
TypesInit ==
  /\ tpc = "discovered"
  /\ discovered \in DiscoveredLists
  /\ typeStats = EmptyMap
  /\ typeResult = NoTypeStats

\* lines 325-331, 757-766
ContractTypesCounted ==
  /\ tpc = "discovered"
  /\ typeStats' = ContractsByType(discovered)
  /\ typeResult' = ContractTypeStats(typeStats')
  /\ tpc' = "returned"
  /\ UNCHANGED discovered
  /\ UNCHANGED outsideTypes

(***************************************************************************)
(* ContractAnalyzer.getNewDeployments                                      *)
(***************************************************************************)
\* the hoursBack a caller passes: none, and the default of a day
HoursBackArgs == {0, 24}

\* line 342: Math.min(100, hoursBack * 60 * 100)
DeploymentBlocksCeiling == 100

\* a variant that looks back one block per hour
BlocksToCheckPerHour(hours) == Min(DeploymentBlocksCeiling, hours)

BlocksToCheck(hours) == Min(DeploymentBlocksCeiling, hours * 60 * 100)

\* line 344: every 10th block
DeploymentStride == 10

\* line 348: block.transactions.slice(0, 10)
DeploymentSliceLength == 10

\* line 377: a delay every 30 blocks
DeploymentDelayEvery == 30

\* the chain height getBlockNumber answers to this scan
DeploymentHeights == {100}

\* the receipts and transactions the chain client can return for a hash
DeploymentReceipts(blockNumber) ==
  [gasUsed : GasValues, contractAddress : Created \cup {Null},
   blockNumber : {blockNumber}]

DeploymentTxs(hash) ==
  [hash : {hash}, from : {SenderE, SenderF}, data : {DataTransfer}]

\* lines 354-367
DeploymentInfo(tx, receipt, blk) ==
  [address |-> ToLowerCase(receipt.contractAddress),
   creator |-> ToLowerCase(tx.from),
   creationHash |-> tx.hash,
   creationBlock |-> receipt.blockNumber,
   contractType |-> IdentifyContractType(tx, receipt),
   firstSeen |-> DateOf(blk.timestamp),
   lastActivity |-> DateOf(blk.timestamp),
   totalInteractions |-> 1,
   uniqueCallers |-> {ToLowerCase(tx.from)},
   functionSignatures |-> EmptyMap,
   gasUsed |-> receipt.gasUsed,
   isVerified |-> FALSE]

\* line 381
SortedDeployments(list) ==
  SortDescBy(list, [k \in 1..Len(list) |-> list[k].creationBlock])

DeploymentsInit ==
  /\ dpc = "idle"
  /\ hoursBack = 0
  /\ dCurrent = 0
  /\ dI = 0
  /\ dBlock = NoBlock
  /\ dJ = 0
  /\ deployments = <<>>
  /\ dResult = <<>>
  /\ hDeployTxs = 0
  /\ hReceipts = {}

\* lines 383-386: the catch of the whole scan
DeploymentsFailed ==
  /\ dResult' = <<>>
  /\ dpc' = "done"

\* line 334: the call
GetNewDeployments ==
  /\ dpc = "idle"
  /\ \E h \in HoursBackArgs : hoursBack' = h
  /\ dpc' = "height"
  /\ UNCHANGED <<dCurrent, dI, dBlock, dJ, deployments, dResult, hDeployTxs, hReceipts>>
  /\ UNCHANGED outsideDeployments

\* line 338: getBlockNumber answers
DeploymentHeightFetched ==
  /\ dpc = "height"
  /\ \E h \in DeploymentHeights : dCurrent' = h
  /\ dpc' = "loop"
  /\ UNCHANGED <<hoursBack, dI, dBlock, dJ, deployments, dResult, hDeployTxs, hReceipts>>
  /\ UNCHANGED outsideDeployments

\* line 338: getBlockNumber fails
DeploymentHeightFailed ==
  /\ dpc = "height"
  /\ DeploymentsFailed
  /\ UNCHANGED <<hoursBack, dCurrent, dI, dBlock, dJ, deployments, hDeployTxs, hReceipts>>
  /\ UNCHANGED outsideDeployments

\* lines 345-348: getBlock answers with a block that lists n hashes
DeploymentBlockFetched ==
  /\ dpc = "loop"
  /\ dI < BlocksToCheck(hoursBack)
  /\ \E n \in 0..Min(MaxTxs, MaxChainTxs - hDeployTxs) :
       /\ dBlock' = [timestamp |-> BlockTimestamp(dCurrent - dI),
                     transactions |->
                       [k \in 1..n |-> TxHash(dI \div DeploymentStride, k - 1)]]
       /\ hDeployTxs' = hDeployTxs + n
  /\ dJ' = 0
  /\ dpc' = "txs"
  /\ UNCHANGED <<hoursBack, dCurrent, dI, deployments, dResult, hReceipts>>
  /\ UNCHANGED outsideDeployments

\* lines 345-346: getBlock answers null
DeploymentBlockMissing ==
  /\ dpc = "loop"
  /\ dI < BlocksToCheck(hoursBack)
  /\ dI' = dI + DeploymentStride
  /\ UNCHANGED <<dpc, hoursBack, dCurrent, dBlock, dJ, deployments, dResult,
                 hDeployTxs, hReceipts>>
  /\ UNCHANGED outsideDeployments

\* line 345: getBlock fails; nothing inside the loop catches it
DeploymentBlockFailed ==
  /\ dpc = "loop"
  /\ dI < BlocksToCheck(hoursBack)
  /\ DeploymentsFailed
  /\ UNCHANGED <<hoursBack, dCurrent, dI, dBlock, dJ, deployments, hDeployTxs, hReceipts>>
  /\ UNCHANGED outsideDeployments

\* lines 350-370: the receipt carries a created-contract address and
\* getTransaction answers with the transaction
DeploymentFetched ==
  /\ dpc = "txs"
  /\ dJ < Min(DeploymentSliceLength, Len(dBlock.transactions))
  /\ \E receipt \in DeploymentReceipts(dCurrent - dI),
        tx \in DeploymentTxs(dBlock.transactions[dJ + 1]) :
       /\ Truthy(receipt.contractAddress)
       /\ deployments' = Append(deployments, DeploymentInfo(tx, receipt, dBlock))
       /\ hReceipts' = hReceipts \cup
            {[hash |-> tx.hash, receipt |-> receipt, from |-> tx.from]}
  /\ dJ' = dJ + 1
  /\ UNCHANGED <<dpc, hoursBack, dCurrent, dI, dBlock, dResult, hDeployTxs>>
  /\ UNCHANGED outsideDeployments

\* a variant that lists a receipt without a created-contract address too
DeploymentAbsentListed ==
  /\ dpc = "txs"
  /\ dJ < Min(DeploymentSliceLength, Len(dBlock.transactions))
  /\ \E receipt \in DeploymentReceipts(dCurrent - dI),
        tx \in DeploymentTxs(dBlock.transactions[dJ + 1]) :
       /\ ~Truthy(receipt.contractAddress)
       /\ deployments' = Append(deployments, DeploymentInfo(tx, receipt, dBlock))
       /\ hReceipts' = hReceipts \cup
            {[hash |-> tx.hash, receipt |-> receipt, from |-> Null]}
  /\ dJ' = dJ + 1
  /\ UNCHANGED <<dpc, hoursBack, dCurrent, dI, dBlock, dResult, hDeployTxs>>
  /\ UNCHANGED outsideDeployments

\* lines 350-351: the receipt carries no created-contract address; the
\* transaction is not fetched
DeploymentAbsent ==
  /\ dpc = "txs"
  /\ dJ < Min(DeploymentSliceLength, Len(dBlock.transactions))
  /\ \E receipt \in DeploymentReceipts(dCurrent - dI) :
       /\ ~Truthy(receipt.contractAddress)
       /\ hReceipts' = hReceipts \cup
            {[hash |-> dBlock.transactions[dJ + 1], receipt |-> receipt, from |-> Null]}
  /\ dJ' = dJ + 1
  /\ UNCHANGED <<dpc, hoursBack, dCurrent, dI, dBlock, deployments, dResult, hDeployTxs>>
  /\ UNCHANGED outsideDeployments

\* lines 350-353, 372-374: getTransactionReceipt fails or answers null, or
\* getTransaction does
DeploymentSkipped ==
  /\ dpc = "txs"
  /\ dJ < Min(DeploymentSliceLength, Len(dBlock.transactions))
  /\ dJ' = dJ + 1
  /\ UNCHANGED <<dpc, hoursBack, dCurrent, dI, dBlock, deployments, dResult,
                 hDeployTxs, hReceipts>>
  /\ UNCHANGED outsideDeployments

\* line 377: the transaction loop is over
DeploymentBlockDone ==
  /\ dpc = "txs"
  /\ dJ >= Min(DeploymentSliceLength, Len(dBlock.transactions))
  /\ IF dI > 0 /\ dI % DeploymentDelayEvery = 0
     THEN dpc' = "delay" /\ dI' = dI
     ELSE dpc' = "loop" /\ dI' = dI + DeploymentStride
  /\ UNCHANGED <<hoursBack, dCurrent, dBlock, dJ, deployments, dResult, hDeployTxs,
                 hReceipts>>
  /\ UNCHANGED outsideDeployments

\* line 377: the 500 ms timer fires
DeploymentDelayed ==
  /\ dpc = "delay"
  /\ dpc' = "loop"
  /\ dI' = dI + DeploymentStride
  /\ UNCHANGED <<hoursBack, dCurrent, dBlock, dJ, deployments, dResult, hDeployTxs,
                 hReceipts>>
  /\ UNCHANGED outsideDeployments

\* lines 380-381: the block loop is over
DeploymentsReturned ==
  /\ dpc = "loop"
  /\ dI >= BlocksToCheck(hoursBack)
  /\ dResult' = SortedDeployments(deployments)
  /\ dpc' = "returned"
  /\ UNCHANGED <<hoursBack, dCurrent, dI, dBlock, dJ, deployments, hDeployTxs, hReceipts>>
  /\ UNCHANGED outsideDeployments

(***************************************************************************)
(* Scans running at once.  A scan runs from one suspension point (an await *)
(* of the chain client or of a timer) to the next without interruption;    *)
(* TaskStep is the code between two of them.                               *)
(***************************************************************************)
Tasks == {1, 2}

\* discoverActiveContracts, getPopularFunctions, getNewDeployments
ScanKinds == {"contracts", "functions", "deployments"}

\* blocks a scan visits, and hashes the chain lists to one scan
MaxTaskBlocks == 2

MaxTaskTxs == 1

\* line 820 passes 10 to getContractFunctions
EcosystemLimit == 10

\* a variant that collects into one collection of the instance
AccumulatorOfInstance(task) == 1

\* lines 50, 249, 339: the collection a call creates for itself
AccumulatorOf(task) == task

\* the block fetched in iteration n: lines 52, 253, 345
TaskBlockNumber(kind, current, n) ==
  IF kind = "deployments" THEN current - DeploymentStride * n ELSE current - n

\* lines 91, 276, 377: whether a timer is awaited after iteration n
DelayDue(kind, n) ==
  IF kind = "deployments"
  THEN n > 0 /\ (DeploymentStride * n) % DeploymentDelayEvery = 0
  ELSE n > 0

TaskTxs(hash) ==
  [hash : {hash}, from : {SenderE}, to : {AddrB, Null}, data : {DataTransfer}]

\* lines 77-83, 263-270, 351-369: what one fetched pair adds
TaskFold(kind, tx, receipt, acc, blk) ==
  IF kind = "contracts" THEN FoldPair(tx, receipt, acc, blk.timestamp)
  ELSE IF kind = "functions" THEN CountFunction(tx, receipt, acc)
  ELSE IF Truthy(receipt.contractAddress)
  THEN Append(acc, DeploymentInfo(tx, receipt, blk))
  ELSE acc

\* lines 94-97, 280-290, 381: what the scan returns
TaskResult(kind, acc) ==
  IF kind = "contracts" THEN SortedContracts(acc)
  ELSE IF kind = "functions" THEN PopularFunctions(acc, EcosystemLimit)
  ELSE SortedDeployments(acc)

IdleTask ==
  [kind |-> "none", pc |-> "idle", current |-> 0, i |-> 0, block |-> NoBlock,
   j |-> 0, result |-> <<>>]

\* the catch of the whole scan: lines 99-102, 292-295, 383-386
TaskFailed(local) == [local EXCEPT !.pc = "done", !.result = <<>>]

\* the head of the block loop
TaskNextBlock(local, acc) ==
  IF local.i + 1 >= MaxTaskBlocks
  THEN [local EXCEPT !.pc = "done", !.i = local.i + 1,
                     !.result = TaskResult(local.kind, acc)]
  ELSE [local EXCEPT !.pc = "block", !.i = local.i + 1]

\* the head of the transaction loop, with the index it arrives with
TaskNextTx(local, acc, index) ==
  IF index < Len(local.block.transactions)
  THEN [local EXCEPT !.pc = "pair", !.j = index]
  ELSE IF DelayDue(local.kind, local.i)
  THEN [local EXCEPT !.pc = "timer", !.j = index]
  ELSE TaskNextBlock([local EXCEPT !.j = index], acc)

\* the code a scan runs when the answer it awaits arrives
TaskStep(local, acc, answer) ==
  IF answer.type = "height"
  THEN [local |-> [local EXCEPT !.pc = "block", !.current = answer.height, !.i = 0],
        acc |-> <<>>]
  ELSE IF answer.type \in {"heightFailed", "blockFailed"}
  THEN [local |-> TaskFailed(local), acc |-> acc]
  ELSE IF answer.type = "blockMissing"
  THEN [local |-> TaskNextBlock(local, acc), acc |-> acc]
  ELSE IF answer.type = "block"
  THEN [local |-> TaskNextTx([local EXCEPT !.block = answer.block], acc, 0),
        acc |-> acc]
  ELSE IF answer.type = "pair"
  THEN LET folded == TaskFold(local.kind, answer.tx, answer.receipt, acc, local.block)
       IN  [local |-> TaskNextTx(local, folded, local.j + 1), acc |-> folded]
  ELSE IF answer.type = "pairSkipped"
  THEN [local |-> TaskNextTx(local, acc, local.j + 1), acc |-> acc]
  ELSE [local |-> TaskNextBlock(local, acc), acc |-> acc]

ConcurrentInit ==
  /\ tasks = [t \in Tasks |-> IdleTask]
  /\ accumulators = [t \in Tasks |-> <<>>]
  /\ hLog = [t \in Tasks |-> <<>>]
  /\ hTaskTxs = [t \in Tasks |-> 0]
  /\ hOverlapped = [t \in Tasks |-> FALSE]

\* the scan resumes with the answer, runs to its next suspension point or to
\* its return, and the others stay suspended
TaskResumed(t, answer) ==
  LET after == TaskStep(tasks[t], accumulators[AccumulatorOf(t)], answer)
  IN  /\ tasks' = [tasks EXCEPT ![t] = after.local]
      /\ accumulators' = [accumulators EXCEPT ![AccumulatorOf(t)] = after.acc]
      /\ hLog' = [hLog EXCEPT ![t] = Append(@, answer)]
      /\ hTaskTxs' =
           [hTaskTxs EXCEPT ![t] =
              IF answer.type = "block" THEN @ + Len(answer.block.transactions) ELSE @]
      /\ hOverlapped' =
           [hOverlapped EXCEPT ![t] =
              \/ @
              \/ /\ answer.type = "pair"
                 /\ after.acc # accumulators[AccumulatorOf(t)]
                 /\ \E u \in Tasks \ {t} : tasks[u].pc \in {"block", "pair", "timer"}]
      /\ UNCHANGED outsideConcurrent

\* lines 45, 244, 334 (from lines 814-819, or from a request): a scan is
\* called and suspends on getBlockNumber
TaskCalled ==
  \E t \in Tasks, kind \in ScanKinds :
    /\ tasks[t].pc = "idle"
    /\ tasks' = [tasks EXCEPT ![t] = [IdleTask EXCEPT !.kind = kind, !.pc = "height"]]
    /\ hLog' = [hLog EXCEPT ![t] = <<[type |-> "call", kind |-> kind]>>]
    /\ UNCHANGED <<accumulators, hTaskTxs, hOverlapped>>
    /\ UNCHANGED outsideConcurrent

\* lines 49, 248, 338: getBlockNumber answers or fails
TaskHeightAnswered ==
  \E t \in Tasks :
    /\ tasks[t].pc = "height"
    /\ \/ \E h \in DeploymentHeights : TaskResumed(t, [type |-> "height", height |-> h])
       \/ TaskResumed(t, [type |-> "heightFailed"])

\* lines 53, 253, 345: getBlock answers with a block, with null, or fails
TaskBlockAnswered ==
  \E t \in Tasks :
    /\ tasks[t].pc = "block"
    /\ \/ \E n \in 0..(MaxTaskTxs - hTaskTxs[t]) :
            TaskResumed(t,
              [type |-> "block",
               block |->
                 [timestamp |->
                    BlockTimestamp(
                      TaskBlockNumber(tasks[t].kind, tasks[t].current, tasks[t].i)),
                  transactions |-> [k \in 1..n |-> TxHash(tasks[t].i, k - 1)]]])
       \/ TaskResumed(t, [type |-> "blockMissing"])
       \/ TaskResumed(t, [type |-> "blockFailed"])

\* lines 69-72, 259-262, 350-352: the fetches of a pair answer, or one fails
TaskPairAnswered ==
  \E t \in Tasks :
    /\ tasks[t].pc = "pair"
    /\ \/ \E tx \in TaskTxs(tasks[t].block.transactions[tasks[t].j + 1]),
              receipt \in TxReceipts(
                TaskBlockNumber(tasks[t].kind, tasks[t].current, tasks[t].i)) :
            TaskResumed(t, [type |-> "pair", tx |-> tx, receipt |-> receipt])
       \/ TaskResumed(t, [type |-> "pairSkipped"])

\* lines 91, 276, 377: the timer fires
TaskTimerFired ==
  \E t \in Tasks :
    /\ tasks[t].pc = "timer"
    /\ TaskResumed(t, [type |-> "timer"])

\* one scan run alone on the answers of a log: every answer is applied to
\* the scan's own locals and collection
RECURSIVE RunAlone(_, _)
RunAlone(log, n) ==
  IF n = 1
  THEN [local |-> [IdleTask EXCEPT !.kind = log[1].kind, !.pc = "height"],
        acc |-> <<>>]
  ELSE LET before == RunAlone(log, n - 1)
       IN  TaskStep(before.local, before.acc, log[n])

(***************************************************************************)
(* MegaETHAnalytics.getActiveContracts and analyzeContractEcosystem.  The  *)
(* scan getActiveContracts awaits is the discoverActiveContracts call      *)
(* modelled above, on a window no longer than MaxBlocks.                   *)
(***************************************************************************)
\* line 670: discoverActiveContracts(8)
ActiveContractsBlocks == 8

\* line 828: activeContracts.slice(0, 5)
EcosystemTop == 5

\* lines 674-684
ActiveContractRow(contract) ==
  [address |-> contract.address,
   contract_type |-> contract.contractType,
   interactions |-> contract.totalInteractions,
   unique_users |-> Cardinality(contract.uniqueCallers),
   total_gas |-> contract.gasUsed,
   created_at |-> contract.firstSeen,
   last_activity |-> contract.lastActivity,
   creator |-> contract.creator,
   creation_block |-> contract.creationBlock]

\* line 673
RealContracts(list, lim) ==
  LET kept == SliceTo(list, lim)
  IN  [p \in 1..Len(kept) |-> ActiveContractRow(kept[p])]

\* what db.getActiveContracts can answer: nothing, or the row of
\* DatabaseManager.getActiveContracts
DatabaseRows ==
  {<<>>,
   <<[address |-> "0x1234...5678", interactions |-> 150, unique_users |-> 45,
      total_gas |-> 500000]>>}

\* the six values Math.round(Math.random() * n) of lines 693-703 come to: all
\* the least, or all the greatest
MockDraws == {<<0, 0, 0, 0, 0, 0>>, <<100, 20, 200000, 50, 15, 100000>>}

\* lines 691-707
MockContracts(draw) ==
  <<[address |-> "0x7f268357A8c2552623316e2562D90e642bB538E5",
     interactions |-> 234 + draw[1],
     unique_users |-> 45 + draw[2],
     total_gas |-> 500000 + draw[3],
     contract_type |-> "DEX",
     note |-> "Real contracts being analyzed from MegaETH"],
    [address |-> "0x514910771AF9Ca656af840dff83E8264EcF986CA",
     interactions |-> 156 + draw[4],
     unique_users |-> 32 + draw[5],
     total_gas |-> 320000 + draw[6],
     contract_type |-> "ERC20 Token"]>>

NoEcosystem == [totalActiveContracts |-> 0, activeContracts |-> <<>>]

FacadeInit ==
  /\ apc = "idle"
  /\ aLimit = 0
  /\ aResult = <<>>
  /\ epc = "idle"
  /\ eResult = NoEcosystem

\* lines 661-670: getActiveContracts starts its scan
ActiveContractsCalled(lim) ==
  /\ apc = "idle"
  /\ pc = "idle"
  /\ aLimit' = lim
  /\ apc' = "scanning"
  /\ blocksToAnalyze' = Min(ActiveContractsBlocks, MaxBlocks)
  /\ pc' = "height"
  /\ event' = "called"
  /\ UNCHANGED <<currentBlock, i, block, j, contracts, result, raised, hBlocksOk,
                 hChainTxs, hFetched, hTouched, hRecipient, hTimes>>
  /\ UNCHANGED <<aResult, eResult>>
  /\ UNCHANGED outsideActiveContracts

\* line 661: a request calls getActiveContracts
GetActiveContracts ==
  /\ \E lim \in Limits : ActiveContractsCalled(lim)
  /\ UNCHANGED epc

\* lines 810-815: analyzeContractEcosystem calls getActiveContracts(10, '24h')
AnalyzeContractEcosystem ==
  /\ epc = "idle"
  /\ ActiveContractsCalled(EcosystemLimit)
  /\ epc' = "waiting"

\* lines 672-685: the scan found contracts
RealContractsReturned ==
  /\ apc = "scanning"
  /\ pc = "done"
  /\ Len(result) > 0
  /\ aResult' = RealContracts(result, aLimit)
  /\ apc' = "returned"
  /\ UNCHANGED <<aLimit, epc, eResult>>
  /\ UNCHANGED outsideFacade

\* lines 672, 688: the scan found none; the database is asked
DatabaseAsked ==
  /\ apc = "scanning"
  /\ pc = "done"
  /\ Len(result) = 0
  /\ apc' = "db"
  /\ UNCHANGED <<aLimit, aResult, epc, eResult>>
  /\ UNCHANGED outsideFacade

\* lines 688-710: the database answers
DatabaseAnswered ==
  /\ apc = "db"
  /\ \E dbContracts \in DatabaseRows :
       IF Len(dbContracts) = 0
       THEN \E draw \in MockDraws : aResult' = MockContracts(draw)
       ELSE aResult' = dbContracts
  /\ apc' = "returned"
  /\ UNCHANGED <<aLimit, epc, eResult>>
  /\ UNCHANGED outsideFacade

\* lines 688, 711-714: the database fails; the catch throws the error again
DatabaseFailed ==
  /\ apc = "db"
  /\ apc' = "raised"
  /\ UNCHANGED <<aLimit, aResult, epc, eResult>>
  /\ UNCHANGED outsideFacade

\* lines 814-832: the awaited calls have returned
EcosystemReturned ==
  /\ epc = "waiting"
  /\ apc = "returned"
  /\ eResult' = [totalActiveContracts |-> Len(aResult),
                 activeContracts |-> SliceTo(aResult, EcosystemTop)]
  /\ epc' = "returned"
  /\ UNCHANGED <<apc, aLimit, aResult>>
  /\ UNCHANGED outsideFacade

\* lines 814, 833-836: getActiveContracts threw; the catch throws again
EcosystemFailed ==
  /\ epc = "waiting"
  /\ apc = "raised"
  /\ epc' = "raised"
  /\ UNCHANGED <<apc, aLimit, aResult, eResult>>
  /\ UNCHANGED outsideFacade

(***************************************************************************)
(* The transaction loop of discoverActiveContracts (lines 61-89) on a      *)
(* block of any size up to MaxBlockSize.                                   *)
(***************************************************************************)
MaxBlockSize == 500

SamplingInit ==
  /\ spc = "idle"
  /\ txCount = 0
  /\ sJ = 0
  /\ hSampled = {}
  /\ hRequests = 0

\* lines 53-65: the block fetched lists n hashes; j = 0
BlockListed ==
  /\ spc = "idle"
  /\ \E n \in 0..MaxBlockSize : txCount' = n
  /\ sJ' = 0
  /\ spc' = "txs"
  /\ UNCHANGED <<hSampled, hRequests>>
  /\ UNCHANGED outsideSampling

\* lines 65-72, 85-88: the pair of the hash at index j is requested; whether
\* it is folded or skipped, j += step
PairRequested ==
  /\ spc = "txs"
  /\ sJ < txCount
  /\ hSampled' = hSampled \cup {sJ}
  /\ hRequests' = hRequests + 1
  /\ sJ' = sJ + Step(txCount)
  /\ UNCHANGED <<spc, txCount>>
  /\ UNCHANGED outsideSampling

\* line 65: j < block.transactions.length fails
BlockSampled ==
  /\ spc = "txs"
  /\ sJ >= txCount
  /\ spc' = "done"
  /\ UNCHANGED <<txCount, sJ, hSampled, hRequests>>
  /\ UNCHANGED outsideSampling

(***************************************************************************)
(* The requests of discoverActiveContracts (lines 49-92).  Promise.all     *)
(* (lines 69-72) resolves when both requests of the pair have answered and *)
(* rejects as soon as one of them fails: the other request, if it has not  *)
(* answered yet, stays in flight while the scan goes on.                   *)
(***************************************************************************)
\* the chain height getBlockNumber answers: a chain of one block, or of two
ScheduleHeights == {0, 1}

IdleSchedule ==
  [pc |-> "idle", blocksToAnalyze |-> 0, currentBlock |-> 0, i |-> 0,
   transactions |-> 0, j |-> 0, tx |-> "none", receipt |-> "none", stray |-> 0,
   heights |-> <<>>]

ScheduleInit == schedule = IdleSchedule

\* lines 52-55, 94-97: the head of the block loop with index n: getBlock is
\* requested for currentBlock - n, or the scan returns
BlockRequested(q, n) ==
  IF n < q.blocksToAnalyze
  THEN [q EXCEPT !.pc = "block", !.i = n,
                 !.heights = Append(@, q.currentBlock - n)]
  ELSE [q EXCEPT !.pc = "done", !.i = n]

\* line 91: the transaction loop of the block is over
TransactionsDone(q) ==
  IF q.i > 0 THEN [q EXCEPT !.pc = "delay"] ELSE BlockRequested(q, q.i + 1)

\* lines 65-72: the head of the transaction loop with index n: both requests
\* of the pair are issued, or the loop is over
PairAwaited(q, n) ==
  IF n < q.transactions
  THEN [q EXCEPT !.pc = "pair", !.j = n, !.tx = "pending", !.receipt = "pending"]
  ELSE TransactionsDone([q EXCEPT !.j = n, !.tx = "none", !.receipt = "none"])

\* the chain-client requests in flight
InFlight(q) ==
  (IF q.pc \in {"height", "block"} THEN 1 ELSE 0)
    + (IF q.tx = "pending" THEN 1 ELSE 0)
    + (IF q.receipt = "pending" THEN 1 ELSE 0)
    + q.stray

\* lines 45-49: the call; getBlockNumber is requested
ScanCalled ==
  /\ schedule.pc = "idle"
  /\ \E b \in BlocksArgs :
       schedule' = [schedule EXCEPT !.pc = "height", !.blocksToAnalyze = b]
  /\ UNCHANGED outsideSchedule

\* line 49: getBlockNumber answers
HeightAnswered ==
  /\ schedule.pc = "height"
  /\ \E h \in ScheduleHeights :
       schedule' = BlockRequested([schedule EXCEPT !.currentBlock = h], 0)
  /\ UNCHANGED outsideSchedule

\* lines 49, 99-102: getBlockNumber fails
HeightRejected ==
  /\ schedule.pc = "height"
  /\ schedule' = [schedule EXCEPT !.pc = "done"]
  /\ UNCHANGED outsideSchedule

\* lines 55-65: getBlock answers with a block of n hashes
BlockAnswered ==
  /\ schedule.pc = "block"
  /\ \E n \in 0..MaxTxs :
       schedule' = PairAwaited([schedule EXCEPT !.transactions = n], 0)
  /\ UNCHANGED outsideSchedule

\* lines 55-57: getBlock answers null
BlockNull ==
  /\ schedule.pc = "block"
  /\ schedule' = BlockRequested(schedule, schedule.i + 1)
  /\ UNCHANGED outsideSchedule

\* lines 55, 99-102: getBlock fails
BlockRejected ==
  /\ schedule.pc = "block"
  /\ schedule' = [schedule EXCEPT !.pc = "done"]
  /\ UNCHANGED outsideSchedule

\* lines 69-83: getTransaction answers, with a transaction or with null; if
\* the receipt has answered too, Promise.all resolves, the pair is folded or
\* skipped, and the loop goes on
TransactionAnswered ==
  /\ schedule.pc = "pair"
  /\ schedule.tx = "pending"
  /\ \E answer \in {"value", "null"} :
       schedule' =
         IF schedule.receipt = "pending"
         THEN [schedule EXCEPT !.tx = answer]
         ELSE PairAwaited(schedule, schedule.j + Step(schedule.transactions))
  /\ UNCHANGED outsideSchedule

\* lines 69-83: getTransactionReceipt answers
ReceiptAnswered ==
  /\ schedule.pc = "pair"
  /\ schedule.receipt = "pending"
  /\ \E answer \in {"value", "null"} :
       schedule' =
         IF schedule.tx = "pending"
         THEN [schedule EXCEPT !.receipt = answer]
         ELSE PairAwaited(schedule, schedule.j + Step(schedule.transactions))
  /\ UNCHANGED outsideSchedule

\* lines 69-72, 85-88: getTransaction or getTransactionReceipt fails;
\* Promise.all rejects and the catch goes on with the next index, whether the
\* other request has answered or not
PairRejected ==
  /\ schedule.pc = "pair"
  /\ \E other \in {"tx", "receipt"} :
       /\ schedule[IF other = "tx" THEN "receipt" ELSE "tx"] = "pending"
       /\ schedule' =
            PairAwaited(
              [schedule EXCEPT !.stray = IF schedule[other] = "pending" THEN @ + 1 ELSE @],
              schedule.j + Step(schedule.transactions))
  /\ UNCHANGED outsideSchedule

\* a request whose pair was given up answers or fails: nobody awaits it
StraySettled ==
  /\ schedule.stray > 0
  /\ schedule' = [schedule EXCEPT !.stray = @ - 1]
  /\ UNCHANGED outsideSchedule

\* line 91: the 100 ms timer fires
DelayElapsed ==
  /\ schedule.pc = "delay"
  /\ schedule' = BlockRequested(schedule, schedule.i + 1)
  /\ UNCHANGED outsideSchedule

(***************************************************************************)
(* The loops of getNewDeployments (lines 338-381) on blocks of more than   *)
(* DeploymentSliceLength transactions, for any hoursBack.                  *)
(***************************************************************************)
\* hoursBack: negative, none, an hour, two, a day
LookbackHours == {0 - 1, 0, 1, 2, 24}

\* the sizes of the blocks fetched: around the slice of line 348
LookbackBlockSizes == {0, 1, DeploymentSliceLength, DeploymentSliceLength + 1}

IdleLookback ==
  [pc |-> "idle", hoursBack |-> 0, currentBlock |-> 0, i |-> 0,
   transactions |-> 0, j |-> 0, heights |-> <<>>, inspected |-> {},
   deployments |-> 0, returned |-> 0]

LookbackInit == lookback = IdleLookback

\* lines 344-345, 380-381: the head of the block loop with index n: getBlock
\* is requested for currentBlock - n, or the sorted list is returned
LookbackBlockRequested(q, n) ==
  IF n < BlocksToCheck(q.hoursBack)
  THEN [q EXCEPT !.pc = "block", !.i = n,
                 !.heights = Append(@, q.currentBlock - n)]
  ELSE [q EXCEPT !.pc = "returned", !.i = n, !.returned = q.deployments]

\* line 334: the call; getBlockNumber is requested
LookbackCalled ==
  /\ lookback.pc = "idle"
  /\ \E h \in LookbackHours :
       lookback' = [lookback EXCEPT !.pc = "height", !.hoursBack = h]
  /\ UNCHANGED outsideLookback

\* lines 338-345: getBlockNumber answers
LookbackHeightAnswered ==
  /\ lookback.pc = "height"
  /\ \E h \in DeploymentHeights :
       lookback' = LookbackBlockRequested([lookback EXCEPT !.currentBlock = h], 0)
  /\ UNCHANGED outsideLookback

\* lines 338, 345, 383-386: getBlockNumber or getBlock fails
LookbackFailed ==
  /\ lookback.pc \in {"height", "block"}
  /\ lookback' = [lookback EXCEPT !.pc = "failed", !.returned = 0]
  /\ UNCHANGED outsideLookback

\* lines 345-348: getBlock answers with a block of n hashes
LookbackBlockAnswered ==
  /\ lookback.pc = "block"
  /\ \E n \in LookbackBlockSizes :
       lookback' = [lookback EXCEPT !.pc = "txs", !.transactions = n, !.j = 0,
                                    !.inspected = {}]
  /\ UNCHANGED outsideLookback

\* lines 345-346: getBlock answers null
LookbackBlockNull ==
  /\ lookback.pc = "block"
  /\ lookback' = LookbackBlockRequested(lookback, lookback.i + DeploymentStride)
  /\ UNCHANGED outsideLookback

\* lines 348-370: the receipt of the hash at index j carries a created
\* address and its transaction is fetched: a record is pushed
LookbackDeploymentPushed ==
  /\ lookback.pc = "txs"
  /\ lookback.j < Min(DeploymentSliceLength, lookback.transactions)
  /\ lookback' = [lookback EXCEPT !.j = @ + 1,
                                  !.inspected = @ \cup {lookback.j},
                                  !.deployments = @ + 1]
  /\ UNCHANGED outsideLookback

\* lines 348-374: the receipt carries none, or a fetch fails or answers null
LookbackHashPassed ==
  /\ lookback.pc = "txs"
  /\ lookback.j < Min(DeploymentSliceLength, lookback.transactions)
  /\ lookback' = [lookback EXCEPT !.j = @ + 1, !.inspected = @ \cup {lookback.j}]
  /\ UNCHANGED outsideLookback

\* line 377: the slice is over
LookbackBlockDone ==
  /\ lookback.pc = "txs"
  /\ lookback.j >= Min(DeploymentSliceLength, lookback.transactions)
  /\ lookback' =
       IF lookback.i > 0 /\ lookback.i % DeploymentDelayEvery = 0
       THEN [lookback EXCEPT !.pc = "delay"]
       ELSE LookbackBlockRequested(lookback, lookback.i + DeploymentStride)
  /\ UNCHANGED outsideLookback

\* line 377: the 500 ms timer fires
LookbackDelayed ==
  /\ lookback.pc = "delay"
  /\ lookback' = LookbackBlockRequested(lookback, lookback.i + DeploymentStride)
  /\ UNCHANGED outsideLookback

(***************************************************************************)
(* MegaETHAnalytics: getNetworkStats (lines 405-468) and                   *)
(* analyzeTransactions (lines 503-570), with the loop of                   *)
(* analyzeBlockTransactions (lines 470-501) each of them ends with.        *)
(***************************************************************************)
\* the heights getBlockNumber answers: the first block, a short chain, and a
\* chain longer than the loop of line 426
StatsHeights == {0, 2, 12}

\* the numbers of hashes in the latest block
StatsLatestSizes == {0, 2}

\* the numbers of hashes in a block of the loop of line 426
StatsLoopSizes == {0, 2}

\* the limit argument of analyzeTransactions: less than the latest block
\* holds, and the default of the tool
StatsLimits == {1, 100}

\* line 421
StatsBlocksCeiling == 100

\* line 426
StatsLoopBlocks == 10

\* line 453
StatsSliceLength == 20

\* line 517
AnalysisSliceCeiling == 20

\* block.timestamp at a height, in seconds
TimestampAt(h) == 1700000000 + h

\* an ethers Block as far as lines 414-453 read it
StatsBlock(h, n) ==
  [timestamp |-> TimestampAt(h), transactions |-> n, gasUsed |-> 750,
   gasLimit |-> 1000]

NoStatsBlock == [timestamp |-> 0, transactions |-> 0, gasUsed |-> 0, gasLimit |-> 0]

\* Math.random() at lines 548-549, as the two numbers of interactions
InteractionDraws == {<<150, 120>>, <<100, 80>>}

NoTypes == [c \in Categories |-> 0]

\* lines 458-466
CannedNetworkStats ==
  [currentTPS |-> 42, avgGasPrice |-> 25, avgBlockTime |-> 24,
   totalTransactions |-> 1000, totalVolume |-> "100.5", gasUtilization |-> 75,
   transactionTypes |-> <<>>]

\* lines 556-568; successRate in tenths, avgValue in units of 0.0001 ETH
CannedAnalysis ==
  [successRate |-> 985, avgGasUsed |-> 21000, avgValue |-> 5000,
   categories |-> <<[type |-> "Transfer", count |-> 45, percentage |-> 45],
                    [type |-> "Contract Call", count |-> 30, percentage |-> 30],
                    [type |-> "Contract Deploy", count |-> 25, percentage |-> 25]>>,
   topContracts |-> <<[address |-> "0x1234...5678", interactions |-> 150],
                      [address |-> "0xabcd...efgh", interactions |-> 120]>>]

CannedOf(op) == IF op = "getNetworkStats" THEN CannedNetworkStats ELSE CannedAnalysis

\* lines 438-454
NetworkStatsOf(q) ==
  [currentTPS |-> IF q.totalTime > 0 THEN RoundDiv(q.totalTxs, q.totalTime) ELSE 0,
   avgGasPrice |-> q.avgGasPrice,
   avgBlockTime |-> q.blockTime,
   totalTransactions |-> q.latest.transactions,
   totalVolume |-> "0",
   gasUtilization |-> RoundDiv(q.latest.gasUsed * 100, q.latest.gasLimit),
   transactionTypes |-> Breakdown(q.types)]

\* lines 537-551, with the two numbers drawn at lines 548-549
AnalysisOf(q, draw) ==
  [successRate |-> IF q.analyzedCount > 0
                   THEN RoundDiv(q.successCount * 1000, q.analyzedCount)
                   ELSE 980,
   avgGasUsed |-> IF q.analyzedCount > 0 THEN q.totalGasUsed \div q.analyzedCount
                  ELSE 21000,
   avgValue |-> IF q.analyzedCount > 0 THEN q.totalValue \div q.analyzedCount
                ELSE 0,
   categories |-> Breakdown(q.types),
   topContracts |-> <<[address |-> "0x1234...5678", interactions |-> draw[1]],
                      [address |-> "0xabcd...efgh", interactions |-> draw[2]]>>]

IdleStats ==
  [pc |-> "idle", op |-> "none", limit |-> 0, currentBlock |-> 0,
   latest |-> NoStatsBlock, blockTime |-> 0, i |-> 0, totalTxs |-> 0,
   totalTime |-> 0, avgGasPrice |-> 0, txsToAnalyze |-> 0, j |-> 0,
   analyzedCount |-> 0, successCount |-> 0, totalGasUsed |-> 0,
   totalValue |-> 0, txHashes |-> 0, k |-> 0, types |-> NoTypes,
   chainFailed |-> FALSE, txFailed |-> FALSE, result |-> <<>>]

StatsInit == analysis = IdleStats

\* the catch clause, were it to throw again
StatsRethrown(q) == [q EXCEPT !.pc = "raised", !.chainFailed = TRUE]

\* lines 455-467, 552-569: the catch clause of the operation returns its
\* canned record; chainFailed is history
StatsCaught(q) ==
  [q EXCEPT !.pc = "returned", !.chainFailed = TRUE, !.result = CannedOf(q.op)]

\* lines 453, 545, 475: analyzeBlockTransactions is called with n hashes
StatsTypesCalled(q, n) ==
  [q EXCEPT !.pc = "types", !.txHashes = n, !.k = 0, !.types = NoTypes]

\* lines 426, 441: the head of the block loop with index n: getBlock is
\* requested, or getFeeData is
StatsLoopHead(q, n) ==
  IF n < Min(StatsLoopBlocks, Min(StatsBlocksCeiling, q.currentBlock))
  THEN [q EXCEPT !.pc = "loopBlock", !.i = n]
  ELSE [q EXCEPT !.pc = "fee", !.i = n]

\* lines 519, 537-545: the head of the pair loop with index n: the two
\* requests are made, or analyzeBlockTransactions is called on the same hashes
StatsPairHead(q, n) ==
  IF n < q.txsToAnalyze
  THEN [q EXCEPT !.pc = "pair", !.j = n]
  ELSE StatsTypesCalled([q EXCEPT !.j = n], q.txsToAnalyze)

\* line 405: the call; getBlockNumber is requested
GetNetworkStats ==
  /\ analysis.pc = "idle"
  /\ analysis' = [analysis EXCEPT !.pc = "height", !.op = "getNetworkStats"]
  /\ UNCHANGED outsideStats

\* line 503: the call; getBlockNumber is requested
AnalyzeTransactions ==
  /\ analysis.pc = "idle"
  /\ \E lim \in StatsLimits :
       analysis' = [analysis EXCEPT !.pc = "height", !.op = "analyzeTransactions",
                              !.limit = lim]
  /\ UNCHANGED outsideStats

\* lines 410-414, 507-508: getBlockNumber answers; getBlock('latest') is
\* requested
StatsHeightAnswered ==
  /\ analysis.pc = "height"
  /\ \E h \in StatsHeights :
       analysis' = [analysis EXCEPT !.pc = "latest", !.currentBlock = h]
  /\ UNCHANGED outsideStats

\* lines 414-418, 508-519: getBlock('latest') answers with a block
StatsLatestAnswered ==
  /\ analysis.pc = "latest"
  /\ \E n \in StatsLatestSizes :
       LET q == [analysis EXCEPT !.latest = StatsBlock(analysis.currentBlock, n)]
       IN  analysis' =
             IF analysis.op = "getNetworkStats"
             THEN [q EXCEPT !.pc = "previous"]
             ELSE StatsPairHead(
                    [q EXCEPT !.txsToAnalyze =
                                Min(n, Min(analysis.limit, AnalysisSliceCeiling))], 0)
  /\ UNCHANGED outsideStats

\* lines 415, 510: getBlock('latest') answers null: the operation throws into
\* its own catch clause
StatsLatestNull ==
  /\ analysis.pc = "latest"
  /\ analysis' = StatsCaught(analysis)
  /\ UNCHANGED outsideStats

\* lines 410-442, 507-508: getBlockNumber, getBlock or getFeeData rejects
StatsFetchRejected ==
  /\ analysis.pc \in {"height", "latest", "previous", "loopBlock", "loopPrev", "fee"}
  /\ analysis' = StatsCaught(analysis)
  /\ UNCHANGED outsideStats

\* lines 418-426: getBlock(currentBlock - 1) answers with a block
StatsPreviousAnswered ==
  /\ analysis.pc = "previous"
  /\ analysis.currentBlock >= 1
  /\ analysis' = StatsLoopHead(
                [analysis EXCEPT !.blockTime =
                   (analysis.latest.timestamp
                      - TimestampAt(analysis.currentBlock - 1)) * 1000], 0)
  /\ UNCHANGED outsideStats

\* lines 418-426: getBlock(currentBlock - 1) answers null
StatsPreviousNull ==
  /\ analysis.pc = "previous"
  /\ analysis' = StatsLoopHead([analysis EXCEPT !.blockTime = 10], 0)
  /\ UNCHANGED outsideStats

\* lines 427-431: getBlock(currentBlock - i) answers with a block; past the
\* first one, getBlock(currentBlock - i + 1) is requested
StatsLoopBlockAnswered ==
  /\ analysis.pc = "loopBlock"
  /\ \E n \in StatsLoopSizes :
       LET q == [analysis EXCEPT !.totalTxs = @ + n]
       IN  analysis' = IF analysis.i > 0 THEN [q EXCEPT !.pc = "loopPrev"]
                    ELSE StatsLoopHead(q, analysis.i + 1)
  /\ UNCHANGED outsideStats

\* lines 427-428, 437: getBlock(currentBlock - i) answers null
StatsLoopBlockNull ==
  /\ analysis.pc = "loopBlock"
  /\ analysis' = StatsLoopHead(analysis, analysis.i + 1)
  /\ UNCHANGED outsideStats

\* lines 431-434: getBlock(currentBlock - i + 1) answers with a block
StatsLoopPrevAnswered ==
  /\ analysis.pc = "loopPrev"
  /\ analysis' = StatsLoopHead(
                [analysis EXCEPT !.totalTime =
                   @ + (TimestampAt(analysis.currentBlock - analysis.i + 1)
                          - TimestampAt(analysis.currentBlock - analysis.i))],
                analysis.i + 1)
  /\ UNCHANGED outsideStats

\* lines 431-432: getBlock(currentBlock - i + 1) answers null
StatsLoopPrevNull ==
  /\ analysis.pc = "loopPrev"
  /\ analysis' = StatsLoopHead(analysis, analysis.i + 1)
  /\ UNCHANGED outsideStats

\* lines 441-442, 453: getFeeData answers, with a gas price of 25 gwei or
\* with none; analyzeBlockTransactions is called
StatsFeeAnswered ==
  /\ analysis.pc = "fee"
  /\ \E price \in {0, 25} :
       analysis' = StatsTypesCalled(
                  [analysis EXCEPT !.avgGasPrice = price],
                  Min(analysis.latest.transactions, StatsSliceLength))
  /\ UNCHANGED outsideStats

\* lines 521-531: both requests of the pair answer with a value: a receipt
\* of 21000 gas and a transaction of 0.5 ETH (in units of 0.0001 ETH)
StatsPairAnswered ==
  /\ analysis.pc = "pair"
  /\ \E status \in {0, 1} :
       analysis' = StatsPairHead(
                  [analysis EXCEPT !.analyzedCount = @ + 1,
                                !.successCount = IF status = 1 THEN @ + 1 ELSE @,
                                !.totalGasUsed = @ + 21000,
                                !.totalValue = @ + 5000],
                  analysis.j + 1)
  /\ UNCHANGED outsideStats

\* lines 521-526: one of the two requests answers null
StatsPairMissing ==
  /\ analysis.pc = "pair"
  /\ analysis' = StatsPairHead(analysis, analysis.j + 1)
  /\ UNCHANGED outsideStats

\* lines 532-534: one of the two requests rejects; txFailed is history
StatsPairRejected ==
  /\ analysis.pc = "pair"
  /\ analysis' = StatsPairHead([analysis EXCEPT !.txFailed = TRUE], analysis.j + 1)
  /\ UNCHANGED outsideStats

\* lines 475-486: getTransaction answers with a transaction
StatsTypeCounted ==
  /\ analysis.pc = "types"
  /\ analysis.k < Min(BlockSliceLength, analysis.txHashes)
  /\ \E tx \in {t \in CategoryTxs(TxHash(0, 0)) : t.value = 0} :
       analysis' = [analysis EXCEPT !.types[BlockTransactionType(tx)] = @ + 1,
                              !.k = @ + 1]
  /\ UNCHANGED outsideStats

\* lines 477-478: getTransaction answers null
StatsTypeMissing ==
  /\ analysis.pc = "types"
  /\ analysis.k < Min(BlockSliceLength, analysis.txHashes)
  /\ analysis' = [analysis EXCEPT !.k = @ + 1]
  /\ UNCHANGED outsideStats

\* lines 487-489: getTransaction rejects; txFailed is history
StatsTypeRejected ==
  /\ analysis.pc = "types"
  /\ analysis.k < Min(BlockSliceLength, analysis.txHashes)
  /\ analysis' = [analysis EXCEPT !.k = @ + 1, !.txFailed = TRUE]
  /\ UNCHANGED outsideStats

\* lines 446-454, 541-551: analyzeBlockTransactions returns, and the
\* operation returns its record
StatsReturned ==
  /\ analysis.pc = "types"
  /\ analysis.k >= Min(BlockSliceLength, analysis.txHashes)
  /\ \E draw \in InteractionDraws :
       analysis' = [analysis EXCEPT !.pc = "returned",
                              !.result = IF analysis.op = "getNetworkStats"
                                         THEN NetworkStatsOf(analysis)
                                         ELSE AnalysisOf(analysis, draw)]
  /\ UNCHANGED outsideStats

(***************************************************************************)
(* MegaETHMCPServer (index.ts): the list-tools and call-tool handlers of   *)
(* setupHandlers, lines 48-238.                                            *)
(***************************************************************************)
\* index.ts, lines 51 and 205
ToolGetNetworkStats ==
  <<"g", "e", "t", "_", "n", "e", "t", "w", "o", "r", "k", "_", "s", "t", 
    "a", "t", "s">>

\* index.ts, lines 65 and 207
ToolAnalyzeTransactions ==
  <<"a", "n", "a", "l", "y", "z", "e", "_", "t", "r", "a", "n", "s", "a", 
    "c", "t", "i", "o", "n", "s">>

\* index.ts, lines 82 and 209
ToolGetActiveContracts ==
  <<"g", "e", "t", "_", "a", "c", "t", "i", "v", "e", "_", "c", "o", "n", 
    "t", "r", "a", "c", "t", "s">>

\* index.ts, lines 100 and 211
ToolDetectWhales ==
  <<"d", "e", "t", "e", "c", "t", "_", "w", "h", "a", "l", "e", "s">>

\* index.ts, lines 118 and 213
ToolGetUserBehavior ==
  <<"g", "e", "t", "_", "u", "s", "e", "r", "_", "b", "e", "h", "a", "v", 
    "i", "o", "r">>

\* index.ts, lines 136 and 215
ToolMonitorDefiActivity ==
  <<"m", "o", "n", "i", "t", "o", "r", "_", "d", "e", "f", "i", "_", "a", 
    "c", "t", "i", "v", "i", "t", "y">>

\* index.ts, lines 155 and 217
ToolGetContractFunctions ==
  <<"g", "e", "t", "_", "c", "o", "n", "t", "r", "a", "c", "t", "_", "f", 
    "u", "n", "c", "t", "i", "o", "n", "s">>

\* index.ts, lines 168 and 219
ToolGetContractTypes ==
  <<"g", "e", "t", "_", "c", "o", "n", "t", "r", "a", "c", "t", "_", "t", 
    "y", "p", "e", "s">>

\* index.ts, lines 176 and 221
ToolGetNewDeployments ==
  <<"g", "e", "t", "_", "n", "e", "w", "_", "d", "e", "p", "l", "o", "y", 
    "m", "e", "n", "t", "s">>

\* index.ts, lines 189 and 223
ToolAnalyzeContractEcosystem ==
  <<"a", "n", "a", "l", "y", "z", "e", "_", "c", "o", "n", "t", "r", "a", 
    "c", "t", "_", "e", "c", "o", "s", "y", "s", "t", "e", "m">>

\* index.ts, lines 49-196: the names of the tools the list-tools handler
\* answers with, in its order
ListedTools ==
  <<ToolGetNetworkStats,
    ToolAnalyzeTransactions,
    ToolGetActiveContracts,
    ToolDetectWhales,
    ToolGetUserBehavior,
    ToolMonitorDefiActivity,
    ToolGetContractFunctions,
    ToolGetContractTypes,
    ToolGetNewDeployments,
    ToolAnalyzeContractEcosystem>>

\* index.ts, lines 204-224: the case labels of the switch and the handler each
\* one awaits
ToolCases ==
  <<[name |-> ToolGetNetworkStats, handler |-> "handleNetworkStats"],
    [name |-> ToolAnalyzeTransactions, handler |-> "handleAnalyzeTransactions"],
    [name |-> ToolGetActiveContracts, handler |-> "handleActiveContracts"],
    [name |-> ToolDetectWhales, handler |-> "handleDetectWhales"],
    [name |-> ToolGetUserBehavior, handler |-> "handleUserBehavior"],
    [name |-> ToolMonitorDefiActivity, handler |-> "handleDeFiActivity"],
    [name |-> ToolGetContractFunctions, handler |-> "handleContractFunctions"],
    [name |-> ToolGetContractTypes, handler |-> "handleContractTypes"],
    [name |-> ToolGetNewDeployments, handler |-> "handleNewDeployments"],
    [name |-> ToolAnalyzeContractEcosystem, handler |-> "handleContractEcosystem"]>>

\* index.ts, lines 204-226: the handler the switch selects for a name; "none"
\* is the default label
Dispatch(name) ==
  LET matching == {k \in 1..Len(ToolCases) : ToolCases[k].name = name}
  IN  IF matching = {} THEN "none"
      ELSE ToolCases[CHOOSE k \in matching : \A m \in matching : k <= m].handler

\* names a request may carry: every listed name, the empty name, a listed name
\* short of its last letter and a listed name with a capital
RequestedNames ==
  {ListedTools[k] : k \in 1..Len(ListedTools)}
    \cup {<<>>,
          SubSeq(ToolDetectWhales, 1, Len(ToolDetectWhales) - 1),
          <<"D">> \o Tail(ToolDetectWhales)}

\* calls of the call-tool handler in one run
MaxCalls == 2

ErrorPrefix == <<"E", "r", "r", "o", "r", ":", " ">>

UnknownToolPrefix ==
  <<"U", "n", "k", "n", "o", "w", "n", " ", "t", "o", "o", "l", ":", " ">>

UnknownError ==
  <<"U", "n", "k", "n", "o", "w", "n", " ", "e", "r", "r", "o", "r">>

\* index.ts, line 225: the Error of the default label
UnknownTool(name) == [isError |-> TRUE, message |-> UnknownToolPrefix \o name]

\* what a handler may throw: an Error with a message, an Error with an empty
\* message, and a value that is no Error
ThrownValues ==
  {[isError |-> TRUE, message |-> <<"t", "i", "m", "e", "o", "u", "t">>],
   [isError |-> TRUE, message |-> <<>>],
   [isError |-> FALSE, message |-> <<"t", "i", "m", "e", "o", "u", "t">>]}

\* index.ts, lines 229-236, with the prefix left out
CaughtResponseBare(error) ==
  [content |-> <<[type |-> "text",
                  text |-> IF error.isError THEN error.message
                           ELSE UnknownError]>>]

\* index.ts, lines 229-236: the result the catch clause returns
CaughtResponse(error) ==
  [content |-> <<[type |-> "text",
                  text |-> ErrorPrefix \o (IF error.isError THEN error.message
                                           ELSE UnknownError)]>>]

\* index.ts, lines 245-249, 271-276, ...: the result of a handler that
\* returns; each text opens with two asterisks
HandlerResponse(handler) ==
  [content |-> <<[type |-> "text", text |-> <<"*", "*">>]>>]

NoResponse == [content |-> <<>>]

IdleTools ==
  [pc |-> "idle", name |-> <<>>, handler |-> "none", failed |-> FALSE,
   response |-> NoResponse, advertised |-> <<>>, calls |-> 0]

ToolsInit == tools = IdleTools

\* index.ts, lines 48-197: the list-tools handler answers
ToolsListed ==
  /\ tools' = [tools EXCEPT !.advertised = ListedTools]
  /\ UNCHANGED outsideTools

\* index.ts, lines 199-226: a call-tool request arrives; the switch awaits
\* the handler of the name, or the default label throws and the catch clause
\* answers
ToolCalled ==
  /\ tools.pc \in {"idle", "answered"}
  /\ tools.calls < MaxCalls
  /\ \E name \in RequestedNames :
       tools' =
         IF Dispatch(name) # "none"
         THEN [tools EXCEPT !.pc = "handler", !.name = name,
                            !.handler = Dispatch(name), !.failed = FALSE,
                            !.response = NoResponse, !.calls = @ + 1]
         ELSE [tools EXCEPT !.pc = "answered", !.name = name,
                            !.handler = "none", !.failed = FALSE,
                            !.response = CaughtResponse(UnknownTool(name)),
                            !.calls = @ + 1]
  /\ UNCHANGED outsideTools

\* index.ts, lines 204-224: the handler awaited returns its result
HandlerReturned ==
  /\ tools.pc = "handler"
  /\ tools' = [tools EXCEPT !.pc = "answered",
                            !.response = HandlerResponse(tools.handler)]
  /\ UNCHANGED outsideTools

\* index.ts, lines 227-236: the handler awaited throws; the catch clause
\* answers
HandlerThrew ==
  /\ tools.pc = "handler"
  /\ \E error \in ThrownValues :
       tools' = [tools EXCEPT !.pc = "answered", !.failed = TRUE,
                              !.response = CaughtResponse(error)]
  /\ UNCHANGED outsideTools

(***************************************************************************)
(* The specifications: one discoverActiveContracts call, one call that     *)
(* assigns transaction categories, the classifier on sample inputs, one    *)
(* getContractFunctions call, getContractTypeStats on sample lists, and    *)
(* one getNewDeployments call.                                             *)
(***************************************************************************)
Init ==
  /\ ScanInit
  /\ CategoryInit
  /\ ClassifyIdle
  /\ FunctionsInit
  /\ TypesIdle
  /\ DeploymentsInit
  /\ ConcurrentInit
  /\ FacadeInit
  /\ SamplingInit
  /\ ScheduleInit
  /\ LookbackInit
  /\ ToolsInit
  /\ StatsInit

Next ==
  \/ Discover
  \/ HeightFetched
  \/ HeightFailed
  \/ BlockFetched
  \/ BlockMissing
  \/ BlockFailed
  \/ PairFetched
  \/ PairSkipped
  \/ BlockDone
  \/ Delayed
  \/ Finish

Spec == Init /\ [][Next]_vars

CategoryNext ==
  \/ AnalyzeBlockTransactions
  \/ TypeCounted
  \/ TypeSkipped
  \/ TypesReturned
  \/ DetectWhaleActivity
  \/ WhaleHeightFetched
  \/ WhaleHeightFailed
  \/ WhaleBlockFetched
  \/ WhaleBlockSkipped
  \/ WhaleTxFetched
  \/ WhaleTxSkipped
  \/ WhaleBlockDone
  \/ WhalesReturned

SpecCategory == Init /\ [][CategoryNext]_vars

ClassifyNext == Identified

\* the classifier's sample inputs, every operation idle
InitClassify ==
  /\ ScanInit
  /\ CategoryInit
  /\ ClassifyInit
  /\ FunctionsInit
  /\ TypesIdle
  /\ DeploymentsInit
  /\ ConcurrentInit
  /\ FacadeInit
  /\ SamplingInit
  /\ ScheduleInit
  /\ LookbackInit
  /\ ToolsInit
  /\ StatsInit

SpecClassify == InitClassify /\ [][ClassifyNext]_vars

FunctionsNext ==
  \/ GetContractFunctions
  \/ PopularHeightFetched
  \/ PopularHeightFailed
  \/ PopularBlockFetched
  \/ PopularBlockMissing
  \/ PopularBlockFailed
  \/ FunctionCounted
  \/ FunctionSkipped
  \/ PopularBlockDone
  \/ PopularDelayed
  \/ FunctionsReturned

SpecFunctions == Init /\ [][FunctionsNext]_vars

TypesNext == ContractTypesCounted

\* the sample lists of discovered contracts, every operation idle
InitTypes ==
  /\ ScanInit
  /\ CategoryInit
  /\ ClassifyIdle
  /\ FunctionsInit
  /\ TypesInit
  /\ DeploymentsInit
  /\ ConcurrentInit
  /\ FacadeInit
  /\ SamplingInit
  /\ ScheduleInit
  /\ LookbackInit
  /\ ToolsInit
  /\ StatsInit

SpecTypes == InitTypes /\ [][TypesNext]_vars

DeploymentsNext ==
  \/ GetNewDeployments
  \/ DeploymentHeightFetched
  \/ DeploymentHeightFailed
  \/ DeploymentBlockFetched
  \/ DeploymentBlockMissing
  \/ DeploymentBlockFailed
  \/ DeploymentFetched
  \/ DeploymentAbsent
  \/ DeploymentSkipped
  \/ DeploymentBlockDone
  \/ DeploymentDelayed
  \/ DeploymentsReturned

SpecDeployments == Init /\ [][DeploymentsNext]_vars

ConcurrentNext ==
  \/ TaskCalled
  \/ TaskHeightAnswered
  \/ TaskBlockAnswered
  \/ TaskPairAnswered
  \/ TaskTimerFired

SpecConcurrent == Init /\ [][ConcurrentNext]_vars

FacadeNext ==
  \/ GetActiveContracts
  \/ AnalyzeContractEcosystem
  \/ HeightFetched
  \/ HeightFailed
  \/ BlockFetched
  \/ BlockMissing
  \/ BlockFailed
  \/ PairFetched
  \/ PairSkipped
  \/ BlockDone
  \/ Delayed
  \/ Finish
  \/ RealContractsReturned
  \/ DatabaseAsked
  \/ DatabaseAnswered
  \/ DatabaseFailed
  \/ EcosystemReturned
  \/ EcosystemFailed

SpecFacade == Init /\ [][FacadeNext]_vars

SamplingNext ==
  \/ BlockListed
  \/ PairRequested
  \/ BlockSampled

SpecSampling == Init /\ [][SamplingNext]_vars

ScheduleNext ==
  \/ ScanCalled
  \/ HeightAnswered
  \/ HeightRejected
  \/ BlockAnswered
  \/ BlockNull
  \/ BlockRejected
  \/ TransactionAnswered
  \/ ReceiptAnswered
  \/ PairRejected
  \/ StraySettled
  \/ DelayElapsed

SpecSchedule == Init /\ [][ScheduleNext]_vars

LookbackNext ==
  \/ LookbackCalled
  \/ LookbackHeightAnswered
  \/ LookbackFailed
  \/ LookbackBlockAnswered
  \/ LookbackBlockNull
  \/ LookbackDeploymentPushed
  \/ LookbackHashPassed
  \/ LookbackBlockDone
  \/ LookbackDelayed

SpecLookback == Init /\ [][LookbackNext]_vars

ToolsNext ==
  \/ ToolsListed
  \/ ToolCalled
  \/ HandlerReturned
  \/ HandlerThrew

SpecTools == Init /\ [][ToolsNext]_vars

StatsNext ==
  \/ GetNetworkStats
  \/ AnalyzeTransactions
  \/ StatsHeightAnswered
  \/ StatsLatestAnswered
  \/ StatsLatestNull
  \/ StatsFetchRejected
  \/ StatsPreviousAnswered
  \/ StatsPreviousNull
  \/ StatsLoopBlockAnswered
  \/ StatsLoopBlockNull
  \/ StatsLoopPrevAnswered
  \/ StatsLoopPrevNull
  \/ StatsFeeAnswered
  \/ StatsPairAnswered
  \/ StatsPairMissing
  \/ StatsPairRejected
  \/ StatsTypeCounted
  \/ StatsTypeMissing
  \/ StatsTypeRejected
  \/ StatsReturned

SpecStats == Init /\ [][StatsNext]_vars

(***************************************************************************)
(* Properties of discoverActiveContracts.                                  *)
(***************************************************************************)
Range(s) == {s[p] : p \in 1..Len(s)}

PositionIn(s, x) == CHOOSE p \in 1..Len(s) : s[p] = x

RECURSIVE SumOver(_, _)
SumOver(f, S) ==
  IF S = {} THEN 0
  ELSE LET x == CHOOSE y \in S : TRUE IN f[x] + SumOver(f, S \ {x})

SignatureCalls(c) ==
  SumOver([p \in 1..Len(c.functionSignatures) |-> c.functionSignatures[p].val],
          1..Len(c.functionSignatures))

\* the indexes the transaction loop of lines 65-89 visits in a block of n hashes
SampledIndexes(n) == {k \in 0..(n - 1) : k % Step(n) = 0}

Returned == pc = "done" /\ event = "returned"

\* C1: if the fetch of one block of the window fails (nothing returned, or an
\* error), only that block is skipped: the result still holds a record for
\* every address folded from the blocks that were fetched.
C1_FailedBlockIsSkipped ==
  pc = "done" =>
    \A a \in Range(hTouched) : \E p \in 1..Len(result) : result[p].address = a

\* C2: discoverActiveContracts never raises to its caller, and when the
\* height fetch fails, when no block of the window is fetched, or when
\* blocksToAnalyze is zero or negative, it returns the empty list.
C2_NeverRaises ==
  /\ ~raised
  /\ (pc = "done" /\ (event = "heightFailed" \/ hBlocksOk = 0 \/ blocksToAnalyze <= 0))
       => result = <<>>

\* C2 witness: the first block fetch answered nothing, the second failed, and
\* the call returned.
C2_Witness ==
  /\ pc = "done"
  /\ blocksToAnalyze = 2
  /\ i = 1
  /\ event = "blockFailed"
  /\ hBlocksOk = 0
  /\ result = <<>>

\* C3: when the fetch of the transaction or of the receipt of one sampled
\* hash fails (an error, or nothing returned), the contract map is unchanged
\* and the loop goes on to the next sampled hash; when the loop over a block
\* ends, the pair of every sampled hash of the block has been requested.
C3_FailedPairIsSkipped ==
  /\ [][event' \in {"pairFailed", "pairMissing"} =>
          /\ contracts' = contracts
          /\ pc' = "txs"
          /\ i' = i
          /\ block' = block
          /\ j' = j + Step(Len(block.transactions))]_vars
  /\ [](pc = "txs" /\ j >= Len(block.transactions) =>
          hFetched = SampledIndexes(Len(block.transactions)))
  /\ [](pc = "txs" => hFetched = {k \in SampledIndexes(Len(block.transactions)) : k < j})

\* C3 witness: in the second block of the window a pair fetch has just failed
\* with a hash left to fetch, and the record folded before it is in the map.
C3_Witness ==
  /\ pc = "txs"
  /\ event = "pairFailed"
  /\ i = 1
  /\ j < Len(block.transactions)
  /\ Len(contracts) = 1

\* C4: the list returned is ordered by non-increasing totalInteractions, and
\* records with equal totalInteractions are in the order in which their
\* addresses were first discovered by the scan.
C4_SortedStable ==
  Returned =>
    \A p, q \in 1..Len(result) :
      p < q =>
        /\ result[p].totalInteractions >= result[q].totalInteractions
        /\ result[p].totalInteractions = result[q].totalInteractions
             => PositionIn(hTouched, result[p].address)
                  < PositionIn(hTouched, result[q].address)

\* C4 witness: two records tie; the one discovered first was later replaced by
\* a deployment fold and is still first.
C4_Witness ==
  /\ Returned
  /\ Len(result) = 2
  /\ result[1].totalInteractions = result[2].totalInteractions
  /\ result[1].creator # Unknown
  /\ hRecipient[result[1].address] > 0
  /\ hTouched = <<result[1].address, result[2].address>>

\* C5: every record's totalInteractions is the number of folded sampled
\* transactions whose recipient is the record's address, compared without
\* regard to case; no interaction counted is lost to a later deployment fold.
C5_InteractionsCounted ==
  \A p \in 1..Len(contracts) :
    contracts[p].val.totalInteractions = hRecipient[contracts[p].key]

\* C6: at every point of the scan and in its result every record has
\* uniqueCallers.size <= totalInteractions, hence the sizes sum to at most
\* the sum of totalInteractions.
C6_CallersAtMostInteractions ==
  LET values == MapValues(contracts)
      callers(list) == [p \in 1..Len(list) |-> Cardinality(list[p].uniqueCallers)]
      totals(list) == [p \in 1..Len(list) |-> list[p].totalInteractions]
      holds(list) ==
        /\ \A p \in 1..Len(list) : callers(list)[p] <= totals(list)[p]
        /\ SumOver(callers(list), 1..Len(list)) <= SumOver(totals(list), 1..Len(list))
  IN  holds(values) /\ holds(result)

\* C6 witness: a record with two callers and three interactions is returned.
C6_Witness ==
  /\ Returned
  /\ \E p \in 1..Len(result) :
       /\ Cardinality(result[p].uniqueCallers) = 2
       /\ result[p].totalInteractions = 3

\* C7: for every record the counts in functionSignatures sum to at most
\* totalInteractions; folding a transaction that has a recipient and call-data
\* of fewer than 10 characters adds one to the recipient's totalInteractions
\* and changes no functionSignatures entry.
C7_SignaturesAtMostInteractions ==
  /\ \A p \in 1..Len(contracts) :
       SignatureCalls(contracts[p].val) <= contracts[p].val.totalInteractions
  /\ \A tx \in TxResponses(TxHash(0, 0)), receipt \in TxReceipts(currentBlock) :
       (Truthy(tx.to) /\ Len(tx.data) < 10) =>
         LET key == ToLowerCase(tx.to)
             folded == FoldPair(tx, receipt, contracts, block.timestamp)
             before == IF MapHas(contracts, key)
                       THEN MapGet(contracts, key)
                       ELSE [totalInteractions |-> 0, functionSignatures |-> EmptyMap]
         IN  /\ MapHas(folded, key)
             /\ MapGet(folded, key).totalInteractions = before.totalInteractions + 1
             /\ MapGet(folded, key).functionSignatures = before.functionSignatures

\* C7 witness: a record that counts two interactions, one of them with a
\* function signature.
C7_Witness ==
  \E p \in 1..Len(contracts) :
    /\ contracts[p].val.totalInteractions = 2
    /\ SignatureCalls(contracts[p].val) = 1
    /\ contracts[p].val.creator = Unknown

SetMin(S) == CHOOSE x \in S : \A y \in S : x <= y

SetMax(S) == CHOOSE x \in S : \A y \in S : x >= y

\* C8: in every record returned, firstSeen is the block timestamp of the
\* earliest and lastActivity that of the latest sampled transaction touching
\* the address, so firstSeen <= lastActivity (block timestamps grow with the
\* height).
C8_FirstSeenBeforeLastActivity ==
  Returned =>
    \A p \in 1..Len(result) :
      /\ result[p].firstSeen = DateOf(SetMin(hTimes[result[p].address]))
      /\ result[p].lastActivity = DateOf(SetMax(hTimes[result[p].address]))
      /\ result[p].firstSeen <= result[p].lastActivity

\* C9: every key of the contract map is lowercase and is the address of its
\* record; addresses that differ only in case are folded into one record, so
\* the keys are exactly the lowercase forms of the addresses folded; every
\* unique caller is stored in lowercase.
C9_LowercaseKeys ==
  /\ \A p \in 1..Len(contracts) :
       /\ contracts[p].key = ToLowerCase(contracts[p].key)
       /\ contracts[p].key = contracts[p].val.address
       /\ \A c \in contracts[p].val.uniqueCallers : c = ToLowerCase(c)
       /\ \A q \in 1..Len(contracts) : contracts[q].key = contracts[p].key => q = p
  /\ MapKeys(contracts) = Range(hTouched)
  /\ Len(contracts) = Len(hTouched)

\* C9 witness: the record of 0xab was sent an interaction (as 0xab) and was
\* deployed (as 0xAb), and the record of 0xcd was sent one (as 0xCd).
C9_Witness ==
  /\ Len(contracts) = 2
  /\ \E p \in 1..2 :
       /\ contracts[p].key = AddrALower
       /\ contracts[p].val.creator # Unknown
       /\ hRecipient[AddrALower] > 0
  /\ MapHas(contracts, ToLowerCase(AddrB))

\* C13: folding a sampled transaction without recipient whose receipt carries
\* a created-contract address A leaves in the map, whatever it held before, a
\* record keyed by lowercase A with totalInteractions = 1, uniqueCallers =
\* {sender}, gasUsed = receipt.gasUsed, creator = sender (both in lowercase),
\* creationHash = the transaction's hash, creationBlock = the receipt's block
\* number, firstSeen = the timestamp of the block being scanned, and
\* contractType = the classifier's label for the transaction and receipt.
C13_DeploymentRecord ==
  (pc = "txs" /\ j < Len(block.transactions)) =>
    \A tx \in TxResponses(block.transactions[j + 1]),
       receipt \in TxReceipts(currentBlock - i) :
      (~Truthy(tx.to) /\ Truthy(receipt.contractAddress)) =>
        LET key == ToLowerCase(receipt.contractAddress)
            folded == FoldPair(tx, receipt, contracts, block.timestamp)
        IN  /\ MapHas(folded, key)
            /\ MapGet(folded, key).address = key
            /\ MapGet(folded, key).totalInteractions = 1
            /\ MapGet(folded, key).uniqueCallers = {ToLowerCase(tx.from)}
            /\ MapGet(folded, key).gasUsed = receipt.gasUsed
            /\ MapGet(folded, key).creator = ToLowerCase(tx.from)
            /\ MapGet(folded, key).creationHash = tx.hash
            /\ MapGet(folded, key).creationBlock = receipt.blockNumber
            /\ MapGet(folded, key).firstSeen = DateOf(block.timestamp)
            /\ MapGet(folded, key).contractType = IdentifyContractType(tx, receipt)
            /\ \A k \in MapKeys(contracts) \ {key} :
                 MapHas(folded, k) /\ MapGet(folded, k) = MapGet(contracts, k)

\* C13 witness: a deployment of 0xAb has just been folded in the second block
\* of the window, onto a record that counted interactions of the first block.
C13_Witness ==
  /\ pc = "txs"
  /\ event = "pairFetched"
  /\ i = 1
  /\ hRecipient[AddrALower] > 0
  /\ MapHas(contracts, AddrALower)
  /\ MapGet(contracts, AddrALower).creationBlock = currentBlock - i
  /\ MapGet(contracts, AddrALower).creationHash = block.transactions[1]
  /\ MapGet(contracts, AddrALower).totalInteractions = 1
  /\ MapGet(contracts, AddrALower).firstSeen = DateOf(block.timestamp)

(***************************************************************************)
(* Properties of the transaction categories.                               *)
(***************************************************************************)
\* C10: wherever a category is assigned, in the breakdown of
\* analyzeBlockTransactions and in the type of a whale entry, a transaction
\* without recipient is Contract Deploy, one with recipient and empty
\* call-data is Transfer, and one with recipient and call-data is Contract
\* Call, whatever its value.
C10_CategoryByPrecedence ==
  /\ \A c \in Categories : types[c] = hCategories[c]
  /\ \A k \in 1..Len(whales) :
       /\ whales[k].type \in Categories
       /\ whales[k].type = CategoryByPrecedence(whales[k].source)

\* C22: every entry detectWhaleActivity returns is made from a transaction that
\* was fetched from one of the 3 most recent blocks and whose value is at least
\* the threshold, and the entries are in order of non-increasing value
C22_WhalesFromTransactions ==
  /\ \A k \in 1..Len(wResult) :
       /\ "source" \in DOMAIN wResult[k]
       /\ wResult[k].source.value >= threshold
       /\ wResult[k].blockNumber \in (wCurrent - (WhaleBlocks - 1))..wCurrent
  /\ \A k \in 1..(Len(wResult) - 1) : wResult[k].value >= wResult[k + 1].value

(***************************************************************************)
(* Properties of identifyContractType.                                     *)
(***************************************************************************)
\* the leading four bytes of call-data, in lowercase and without the 0x
LeadingPrefix(data) == Substring(ToLowerCase(data), 2, 10)

\* the label by the leading four bytes and the gas used
LabelByPrefix(data, gasUsed) ==
  LET listed == {p \in 1..Len(SignatureTable) :
                   SignatureTable[p].pattern = LeadingPrefix(data)}
  IN  IF listed # {}
      THEN SignatureTable[SetMin(listed)].label
      ELSE IF gasUsed > 1000000 THEN "Complex DeFi"
      ELSE IF gasUsed > 500000 THEN "Multi-Function"
      ELSE IF gasUsed > 100000 THEN "Standard Contract"
      ELSE "Unknown"

\* C11: for every transaction with call-data the label is the one of the
\* table's group that lists the leading four bytes, whatever the gas used
\* (0xa9059cbb with 2,000,000 gas is ERC20 Token); with leading bytes that are
\* not listed it is Complex DeFi above 1,000,000 gas, Multi-Function above
\* 500,000, Standard Contract above 100,000, and Unknown otherwise.
C11_LabelByLeadingPrefix ==
  idpc = "labelled" => idLabel = LabelByPrefix(idData, idGas)

\* C12: two transactions with the same leading four bytes of call-data and
\* the same gas used get the same label, whatever bytes follow.
C12_LabelIgnoresArguments ==
  (idpc = "labelled" /\ LeadingPrefix(idData) = LeadingPrefix(idOther))
    => idLabel = idOtherLabel

(***************************************************************************)
(* Properties of getPopularFunctions and getContractFunctions.             *)
(***************************************************************************)
\* C14: the list getPopularFunctions(limit) returns is ordered by
\* non-increasing callCount and has, for every integer limit, at most
\* max(limit, 0) entries; when more distinct prefixes were observed than
\* limit, the entries kept are those with the highest callCount.
C14_PopularSortedAndTruncated ==
  fpc = "returned" =>
    /\ \A p, q \in 1..Len(popular) :
         p < q => popular[p].callCount >= popular[q].callCount
    /\ Len(popular) <= Max(limit, 0)
    /\ \A p \in 1..Len(popular), q \in 1..Len(functionStats) :
         (\A r \in 1..Len(popular) : popular[r].signature # functionStats[q].key)
           => functionStats[q].val.count <= popular[p].callCount

\* C15: the entry of prefix p has callCount equal to the number of sampled
\* transactions that have a recipient and call-data of at least 4 bytes that
\* begins with p, and gasUsage equal to the sum of the gas used by those
\* transactions; a transaction without recipient, or with shorter call-data,
\* contributes to no entry.
C15_CallsOfRecipientTransactions ==
  /\ \A p \in 1..Len(functionStats) :
       /\ functionStats[p].val.count = hCalls[functionStats[p].key]
       /\ functionStats[p].val.gasUsed = hCallGas[functionStats[p].key]
  /\ \A g \in Signatures : hCalls[g] > 0 => MapHas(functionStats, g)
  /\ \A p \in 1..Len(popular) :
       /\ popular[p].callCount = hCalls[popular[p].signature]
       /\ popular[p].gasUsage = hCallGas[popular[p].signature]

C17_TypeDistribution ==
  tpc = "returned" =>
    LET list == typeResult.distribution
        total == typeResult.totalContracts
        counts == [p \in 1..Len(list) |-> list[p].count]
        percentages == [p \in 1..Len(list) |-> list[p].percentage]
    IN  /\ total = Len(discovered)
        /\ SumOver(counts, 1..Len(list)) = total
        /\ \A p \in 1..Len(list) :
             /\ list[p].count =
                  Cardinality({q \in 1..Len(discovered) :
                                 discovered[q].contractType = list[p].type})
             /\ list[p].percentage = RoundDiv(100 * list[p].count, total)
        /\ total > 0 =>
             /\ SumOver(percentages, 1..Len(list)) >= 100 - Len(list)
             /\ SumOver(percentages, 1..Len(list)) <= 100 + Len(list)
        /\ total = 0 => list = <<>>

(***************************************************************************)
(* Properties of getNewDeployments.                                        *)
(***************************************************************************)
\* C18: every record getNewDeployments returns comes from a scanned
\* transaction whose receipt carries a created-contract address, with creator
\* = that transaction's sender (in lowercase) and creationBlock = the
\* receipt's block number; a transaction whose receipt carries none gives no
\* record, every one fetched whose receipt carries one gives exactly one; and
\* the list is ordered by non-increasing creationBlock.
C18_OnlyDeployments ==
  dpc = "returned" =>
    /\ \A p \in 1..Len(dResult) :
         \E s \in hReceipts :
           /\ s.hash = dResult[p].creationHash
           /\ Truthy(s.receipt.contractAddress)
           /\ dResult[p].address = ToLowerCase(s.receipt.contractAddress)
           /\ dResult[p].creator = ToLowerCase(s.from)
           /\ dResult[p].creationBlock = s.receipt.blockNumber
    /\ \A s \in hReceipts :
         Cardinality({p \in 1..Len(dResult) : dResult[p].creationHash = s.hash})
           = IF Truthy(s.receipt.contractAddress) THEN 1 ELSE 0
    /\ \A p, q \in 1..Len(dResult) :
         p < q => dResult[p].creationBlock >= dResult[q].creationBlock

\* C18 witness: two deployments of different blocks are returned, and a
\* receipt without created-contract address was fetched.
C18_Witness ==
  /\ dpc = "returned"
  /\ Len(dResult) = 2
  /\ dResult[1].creationBlock > dResult[2].creationBlock
  /\ \E s \in hReceipts : ~Truthy(s.receipt.contractAddress)

(***************************************************************************)
(* Properties of scans running at once.                                    *)
(***************************************************************************)
\* C19: scans that run interleaved at their suspension points share no
\* mutable state: whatever the interleaving, a scan that has returned has
\* returned the result it returns when run alone on the chain answers it
\* received.
C19_ScansIsolated ==
  \A t \in Tasks :
    tasks[t].pc = "done" =>
      tasks[t].result = RunAlone(hLog[t], Len(hLog[t])).local.result

\* C19 witness: two scans of different kinds have returned non-empty
\* results, each having collected a pair while the other was suspended.
C19_Witness ==
  /\ \A t \in Tasks :
       /\ tasks[t].pc = "done"
       /\ tasks[t].result # <<>>
       /\ hOverlapped[t]
  /\ tasks[1].kind # tasks[2].kind

(***************************************************************************)
(* Properties of getActiveContracts and analyzeContractEcosystem.          *)
(***************************************************************************)
\* the height fetch failed, or the first block fetch did: no fetch answered
ChainUnavailable ==
  /\ pc = "done"
  /\ \/ event = "heightFailed"
     \/ event = "blockFailed" /\ i = 0

\* C20: when the chain is totally unavailable, getActiveContracts and
\* analyzeContractEcosystem give an empty set of active contracts and do not
\* raise, whatever the database answers or fails with.
C20_UnavailableChainGivesEmpty ==
  ChainUnavailable =>
    /\ apc # "raised"
    /\ apc = "returned" => aResult = <<>>
    /\ epc # "raised"
    /\ epc = "returned" =>
         eResult.totalActiveContracts = 0 /\ eResult.activeContracts = <<>>

C25_RequestsWithinSampleSize ==
  hRequests <= Min(50, txCount)

(***************************************************************************)
(* Properties of the pacing and of the folding rule of a scan.             *)
(***************************************************************************)
\* C26: when the processing of a block has ended and another block of the
\* window is still to be fetched, the scan awaits the delay before it fetches
\* it, the second block of the window included; and the delay is awaited only
\* when the transaction loop of the block is over.
C26_DelayBetweenBlocks ==
  /\ (event = "blockDone" /\ pc = "loop") => i >= blocksToAnalyze
  /\ pc = "delay" => j >= Len(block.transactions)

\* C27: a sampled pair is folded by the first rule that applies, in this
\* order: a receipt with a created-contract address makes it a deployment
\* keyed by that address; else a recipient makes it an interaction with the
\* recipient; else the map is left unchanged.
C27_DeploymentRuleFirst ==
  (pc = "txs" /\ j < Len(block.transactions)) =>
    \A tx \in TxResponses(block.transactions[j + 1]),
       receipt \in TxReceipts(currentBlock - i) :
      PairShape(tx, receipt) =>
        FoldPair(tx, receipt, contracts, block.timestamp) =
          IF Truthy(receipt.contractAddress)
          THEN AnalyzeContractDeployment(tx, receipt, contracts, block.timestamp)
          ELSE IF Truthy(tx.to)
          THEN AnalyzeContractInteraction(tx, receipt, contracts, block.timestamp)
          ELSE contracts

(***************************************************************************)
(* Properties of the requests of a scan.                                   *)
(***************************************************************************)
\* C28: within one scan the blocks are requested one at a time at the
\* heights current, current - 1, ... and never more than blocksToAnalyze of
\* them; a block is requested only when no request of a transaction of an
\* earlier block is in flight; and at any moment at most the two requests of
\* one pair are in flight.
C28_OneRequestAtATime ==
  /\ \A k \in 1..Len(schedule.heights) :
       schedule.heights[k] = schedule.currentBlock - (k - 1)
  /\ Len(schedule.heights) <= Max(schedule.blocksToAnalyze, 0)
  /\ schedule.pc = "block" => InFlight(schedule) = 1
  /\ InFlight(schedule) <= 2

\* C29: the scan never requests a block of negative height: every height
\* requested lies in 0..current.
C29_HeightsWithinChain ==
  \A k \in 1..Len(schedule.heights) :
    schedule.heights[k] \in 0..schedule.currentBlock

StartsWith(text, prefix) ==
  Len(text) >= Len(prefix) /\ SubSeq(text, 1, Len(prefix)) = prefix

\* C23: the names the list-tools handler advertises are the names the
\* call-tool handler dispatches, and a call that names another tool, or whose
\* handler throws, is answered with one text that begins with "Error: "
C23_ListedToolsDispatched ==
  /\ {ListedTools[k] : k \in 1..Len(ListedTools)}
       = {ToolCases[k].name : k \in 1..Len(ToolCases)}
  /\ \A name \in RequestedNames :
       Dispatch(name) # "none" <=> \E k \in 1..Len(ListedTools) : ListedTools[k] = name
  /\ \A k \in 1..Len(tools.advertised) : Dispatch(tools.advertised[k]) # "none"
  /\ tools.pc = "answered" =>
       /\ Len(tools.response.content) = 1
       /\ tools.response.content[1].type = "text"
       /\ (Dispatch(tools.name) = "none" \/ tools.failed) =>
            StartsWith(tools.response.content[1].text, ErrorPrefix)
  /\ tools.pc = "handler" => Dispatch(tools.name) = tools.handler

C23_Witness ==
  /\ tools.pc = "answered"
  /\ tools.calls = MaxCalls
  /\ tools.failed
  /\ tools.advertised = ListedTools
  /\ tools.response.content[1].text = ErrorPrefix \o UnknownError

(***************************************************************************)
(* Properties of getNetworkStats and analyzeTransactions.                  *)
(***************************************************************************)
\* C21: neither operation raises to its caller; once the height fetch, the
\* latest-block fetch or a block fetch has failed the operation has returned
\* its canned record, and a call in which only transaction fetches failed
\* returns a record computed from the chain
C21_CannedOnChainFailure ==
  /\ analysis.pc # "raised"
  /\ analysis.chainFailed =>
       /\ analysis.pc = "returned"
       /\ analysis.result = CannedOf(analysis.op)
  /\ (analysis.pc = "returned" /\ ~analysis.chainFailed) =>
       /\ analysis.result # CannedOf(analysis.op)
       /\ analysis.result = IF analysis.op = "getNetworkStats"
                         THEN NetworkStatsOf(analysis)
                         ELSE AnalysisOf(analysis, <<analysis.result.topContracts[1].interactions,
                                                  analysis.result.topContracts[2].interactions>>)
  /\ analysis.txFailed => ~analysis.chainFailed

C21_Witness ==
  /\ analysis.pc = "returned"
  /\ analysis.op = "analyzeTransactions"
  /\ analysis.txFailed
  /\ analysis.analyzedCount > 0
  /\ analysis.result # CannedAnalysis
  /\ analysis.result.topContracts = CannedAnalysis.topContracts

====
